---- MODULE Spec2Model ----
(***************************************************************************)
(* State-machine model of the Roon sidecar: the artwork LRU/TTL cache and  *)
(* the image manager of src/sidecar/src/roon/image.ts, the zone/output     *)
(* reconciler of src/sidecar/src/roon/transport.ts, the pairing handlers   *)
(* of src/sidecar/src/roon/client.ts and the output module                 *)
(* (src/unnamed/part_000, lines 43-190).                                   *)
(*                                                                         *)
(* A step of the model is a call that a collaborator makes (a             *)
(* subscription callback, a get_image callback, core_paired,               *)
(* core_unpaired), a timer's callback, or one continuation of the          *)
(* microtask queue: every await of an                                      *)
(* async function ends the step and puts the rest of the function at the   *)
(* end of that queue.  Spec, SpecBurst, SpecSubscription, SpecImage and    *)
(* SpecSession let every call arrive in a turn of its own; SpecTurn lets   *)
(* several calls arrive in one turn; SpecClient has start(), stop(), the   *)
(* connection's onclose and cores of every shape.                          *)
(*                                                                         *)
(* JavaScript values that are not strings are written as reserved strings: *)
(* undefined and null below.  No input set contains a real string equal to *)
(* one of them.                                                            *)
(***************************************************************************)
EXTENDS Integers, Sequences, FiniteSets, TLC

VARIABLES
    now,          \* Date.now(), in ms since the start of the run
    cache,        \* LRUCache.cache: the Map's entries in insertion order
    last,         \* the operation that ran last, with its arguments and result
    history,      \* resident image keys by their last cache.get hit or cache.set, oldest first
    imageService, \* ImageManager.imageService is set (TRUE) or null (FALSE)
    fetches,      \* the getImageAsDataUrl calls whose timer or callback is still to come
    requests,     \* the number of get_image requests sent so far
    transportService, \* TransportManager.transportService is set (TRUE) or null (FALSE)
    allZones,     \* TransportManager.allZones: the Map's zones in insertion order
    allOutputs,   \* TransportManager.allOutputs: the Map's outputs in insertion order
    tasks,        \* the handleZonesUpdate calls waiting for an artwork fetch
    stdout,       \* the messages written to stdout in the last step, in order
    turn,         \* the handler that ran in the last step, and what it was given
    subscriptions, \* which subscription callbacks the transport collaborator holds
    microtasks,   \* the continuations of async functions that are ready to run, first in first out
    draining,     \* the event loop is running the microtasks of the current turn
    client        \* RoonClient: ROON_HOST, isAuthorized, open connections, reconnect timers

imageVars == <<imageService, fetches, requests>>

loopVars == <<microtasks, draining>>

transportVars == <<transportService, allZones, allOutputs, tasks, stdout, turn,
                   subscriptions, microtasks, draining, client>>

vars == <<now, cache, last, history, imageService, fetches, requests,
          transportService, allZones, allOutputs, tasks, stdout, turn,
          subscriptions, microtasks, draining, client>>

(***************************************************************************)
(* Bounds of the model.                                                    *)
(***************************************************************************)
\* The clock shows up to ClockSpans whole TTL periods, plus 0 or 1 ms.
ClockSpans == 1
\* At most MaxFetches requests are sent to the image collaborator.
MaxFetches == 2
\* A collaborator's call arrives in a turn of the event loop only while fewer
\* than MaxQueued continuations are waiting in the microtask queue.
MaxQueued == 2
\* At most MaxConnections connections to a core are open or about to be
\* reopened by a reconnect timer.
MaxConnections == 1
\* The reconnect timers fire while the clock shows at most MaxReconnects times
\* the reconnect delay.
MaxReconnects == 2

(***************************************************************************)
(* Program constants (image.ts).                                           *)
(***************************************************************************)
MAX_CACHE_SIZE == 100
CACHE_TTL_MS == 60 * 60 * 1000
IMAGE_FETCH_TIMEOUT_MS == 10000

\* The delay of the reconnect timer (client.ts 173).
RECONNECT_DELAY_MS == 5000

\* LRUCache's constructor arguments, as ImageManager passes them.
maxSize == MAX_CACHE_SIZE
ttlMs == CACHE_TTL_MS

undefined == "<undefined>"
null == "<null>"

(***************************************************************************)
(* Sequence helpers.                                                       *)
(***************************************************************************)
RemoveAt(s, i) == SubSeq(s, 1, i - 1) \o SubSeq(s, i + 1, Len(s))

\* Position of key in the Map's iteration order, 0 when the Map has no such key.
IndexOf(c, key) ==
    IF \E i \in 1..Len(c) : c[i].key = key
    THEN CHOOSE i \in 1..Len(c) : c[i].key = key
    ELSE 0

Keys(c) == {c[i].key : i \in 1..Len(c)}

\* Map.delete(key)
MapDelete(c, key) ==
    IF IndexOf(c, key) = 0 THEN c ELSE RemoveAt(c, IndexOf(c, key))

\* Map.set(key, entry): an existing key keeps its position, a new key goes last.
MapSet(c, key, entry) ==
    IF IndexOf(c, key) = 0
    THEN Append(c, entry)
    ELSE [c EXCEPT ![IndexOf(c, key)] = entry]

(***************************************************************************)
(* LRUCache (image.ts 25-87).  Each operation is a function of the Map,    *)
(* its arguments and Date.now(), and gives the Map afterwards and the      *)
(* returned value.                                                         *)
(***************************************************************************)
ExpiredInclusive(entry, t) == t - entry.timestamp >= ttlMs

\* image.ts 43 and 73: Date.now() - entry.timestamp > this.ttlMs
Expired(entry, t) == t - entry.timestamp > ttlMs

LRUGetNoMove(c, key, t) ==
    LET i == IndexOf(c, key) IN
    IF i = 0 THEN [cache |-> c, value |-> undefined]
    ELSE IF Expired(c[i], t) THEN [cache |-> MapDelete(c, key), value |-> undefined]
    ELSE [cache |-> c, value |-> c[i].value]

LRUGetRestamp(c, key, t) ==
    LET i == IndexOf(c, key) IN
    IF i = 0 THEN [cache |-> c, value |-> undefined]
    ELSE IF Expired(c[i], t) THEN [cache |-> MapDelete(c, key), value |-> undefined]
    ELSE [cache |-> MapSet(MapDelete(c, key), key, [c[i] EXCEPT !.timestamp = t]),
          value |-> c[i].value]

\* get(key)
LRUGet(c, key, t) ==
    LET i == IndexOf(c, key) IN
    IF i = 0 THEN [cache |-> c, value |-> undefined]
    ELSE IF Expired(c[i], t) THEN [cache |-> MapDelete(c, key), value |-> undefined]
    ELSE [cache |-> MapSet(MapDelete(c, key), key, c[i]), value |-> c[i].value]

LRUSetInPlace(c, key, value, t) ==
    LET entry == [key |-> key, value |-> value, timestamp |-> t] IN
    IF IndexOf(c, key) # 0 THEN MapSet(c, key, entry)
    ELSE IF Len(c) >= maxSize
    THEN (IF Len(c) > 0 THEN MapSet(MapDelete(c, c[1].key), key, entry)
                        ELSE MapSet(c, key, entry))
    ELSE MapSet(c, key, entry)

LRUSetNoEvict(c, key, value, t) ==
    MapSet(MapDelete(c, key), key, [key |-> key, value |-> value, timestamp |-> t])

\* set(key, value)
LRUSet(c, key, value, t) ==
    LET entry == [key |-> key, value |-> value, timestamp |-> t] IN
    IF IndexOf(c, key) # 0 THEN MapSet(MapDelete(c, key), key, entry)
    ELSE IF Len(c) >= maxSize
    THEN (IF Len(c) > 0 THEN MapSet(MapDelete(c, c[1].key), key, entry)
                        ELSE MapSet(c, key, entry))
    ELSE MapSet(c, key, entry)

LRUHasNoDelete(c, key, t) ==
    LET i == IndexOf(c, key) IN
    IF i = 0 THEN [cache |-> c, value |-> FALSE]
    ELSE IF Expired(c[i], t) THEN [cache |-> c, value |-> FALSE]
    ELSE [cache |-> c, value |-> TRUE]

\* has(key)
LRUHas(c, key, t) ==
    LET i == IndexOf(c, key) IN
    IF i = 0 THEN [cache |-> c, value |-> FALSE]
    ELSE IF Expired(c[i], t) THEN [cache |-> MapDelete(c, key), value |-> FALSE]
    ELSE [cache |-> c, value |-> TRUE]

\* clear()
LRUClear(c) == << >>

\* get size()
LRUSize(c) == Len(c)

(***************************************************************************)
(* The data URL built from the collaborator's answer (image.ts 203-213).   *)
(* A Buffer is a sequence of bytes; its base64 text is computed as         *)
(* Buffer.toString('base64') computes it.                                  *)
(***************************************************************************)
B64Alphabet ==
    << "A","B","C","D","E","F","G","H","I","J","K","L","M","N","O","P",
       "Q","R","S","T","U","V","W","X","Y","Z","a","b","c","d","e","f",
       "g","h","i","j","k","l","m","n","o","p","q","r","s","t","u","v",
       "w","x","y","z","0","1","2","3","4","5","6","7","8","9","+","/" >>

B64Char(n) == B64Alphabet[n + 1]

RECURSIVE Base64(_)
Base64(b) ==
    IF Len(b) = 0 THEN ""
    ELSE IF Len(b) = 1 THEN
        B64Char(b[1] \div 4) \o B64Char((b[1] % 4) * 16) \o "=="
    ELSE IF Len(b) = 2 THEN
        B64Char(b[1] \div 4) \o B64Char((b[1] % 4) * 16 + b[2] \div 16)
            \o B64Char((b[2] % 16) * 4) \o "="
    ELSE
        B64Char(b[1] \div 4) \o B64Char((b[1] % 4) * 16 + b[2] \div 16)
            \o B64Char((b[2] % 16) * 4 + b[3] \div 64) \o B64Char(b[3] % 64)
            \o Base64(SubSeq(b, 4, Len(b)))

\* contentType || 'image/jpeg'; `data:${mimeType};base64,${base64}`
DataUrl(contentType, body) ==
    LET mimeType == IF contentType \in {"", undefined, null} THEN "image/jpeg"
                    ELSE contentType
    IN "data:" \o mimeType \o ";base64," \o Base64(body)

(***************************************************************************)
(* Inputs.                                                                 *)
(***************************************************************************)
\* Image keys the operations are called with.
ImageKeys == {"img1", "img2"}

\* Buffers the image collaborator answers with.
Bodies == { <<77, 97>> }

\* Content types the image collaborator reports ("" when it reports none).
ContentTypes == {"", "image/png"}

\* Keys get, set and has are called with.
CacheKeys == {"img1", "img2"}

\* Values the cache is asked to store.
Values == {DataUrl(ct, b) : ct \in ContentTypes, b \in {<<77>>}}

\* Amounts of time that pass between two events, in ms.
ClockSteps == {1, CACHE_TTL_MS}

\* The times the clock shows: whole TTL periods plus a few milliseconds.
ClockTimes == {p * CACHE_TTL_MS + ms : p \in 0..ClockSpans, ms \in {0, 1}}

(***************************************************************************)
(* A full cache: img1 was stored first, then MAX_CACHE_SIZE - 1 other keys *)
(* that no later call names.                                               *)
(***************************************************************************)
FillKey(i) == "fill" \o ToString(i)

WarmCache ==
    << [key |-> "img1", value |-> DataUrl("", <<77>>), timestamp |-> 0] >>
    \o [i \in 1..(MAX_CACHE_SIZE - 1) |->
          [key |-> FillKey(i), value |-> DataUrl("", <<77>>), timestamp |-> 0]]

(***************************************************************************)
(* History kept beside the program's state, maintained from the calls and  *)
(* their results and not from the Map: the resident keys ordered by their  *)
(* last cache.get hit or cache.set, oldest first, each with the time of    *)
(* its last cache.set and the value that set stored.                       *)
(***************************************************************************)
HistoryOf(c) ==
    [i \in 1..Len(c) |->
        [key |-> c[i].key, setAt |-> c[i].timestamp, value |-> c[i].value]]

HistIndex(u, key) ==
    IF \E i \in 1..Len(u) : u[i].key = key
    THEN CHOOSE i \in 1..Len(u) : u[i].key = key
    ELSE 0

\* key was read with a cache.get that hit.
UsedByGet(u, key) ==
    IF HistIndex(u, key) = 0 THEN u
    ELSE Append(RemoveAt(u, HistIndex(u, key)), u[HistIndex(u, key)])

\* key was written with cache.set(key, value) at time t.
UsedBySet(u, key, value, t) ==
    Append(SelectSeq(u, LAMBDA e : e.key # key),
           [key |-> key, setAt |-> t, value |-> value])

\* Keys that are no longer resident leave the history.
Dropped(u, c) ==
    LET resident == Keys(c) IN SelectSeq(u, LAMBDA e : e.key \in resident)

(***************************************************************************)
(* Values that count as false in a condition, and the record of one fetch. *)
(***************************************************************************)
Falsy == {undefined, null, ""}

NewFetch(id, key, task, t) ==
    [id        |-> id,
     key       |-> key,
     timer     |-> "armed",
     promise   |-> "pending",
     settles   |-> 0,
     value     |-> undefined,
     answered  |-> FALSE,
     task      |-> task,
     startedAt |-> t]

\* No fetch.
NoFetch == NewFetch(0, "", 0, 0)

\* The call that ran last: its arguments, what it returned, and what it found
\* and changed in the cache (before and after are the Map before and after the
\* call, t is Date.now() during the call, u the history before it, f the
\* fetch the call was about, as the call left it).
Done(op, key, result, before, after, t, u, f) ==
    [op      |-> op,
     key     |-> key,
     result  |-> result,
     time    |-> t,
     had     |-> IndexOf(before, key) # 0,
     setAt   |-> IF HistIndex(u, key) # 0 THEN u[HistIndex(u, key)].setAt ELSE -1,
     stored  |-> IF HistIndex(u, key) # 0 THEN u[HistIndex(u, key)].value ELSE undefined,
     size    |-> Len(before),
     changed |-> before # after,
     removed |-> Keys(before) \ Keys(after),
     lru     |-> IF Len(u) > 0 THEN u[1].key ELSE "",
     mru     |-> IF Len(u) > 0 THEN u[Len(u)].key ELSE "",
     fetch   |-> f]

NoOp == Done("init", "", undefined, << >>, << >>, 0, << >>, NoFetch)

\* The handler that ran in the last turn: zones is the burst's list of zone
\* records, mutated tells whether the zone map or the output map changed,
\* done whether the handler ran to its end in this turn, and nowPlaying holds
\* the now_playing messages the handler's call has written so far.  When the
\* turn settled a fetch that a zone burst awaited, settled tells how
\* ("fulfilled", "error" or "timeout") and awaited holds the zone whose
\* artwork it was.  thrown tells that the handler's call ended with an
\* exception that reached its caller; cached, that the cache held an entry
\* when a pairing loss arrived.
Turn(kind, zones, mutated, done, nowPlaying) ==
    [kind       |-> kind,
     zones      |-> zones,
     mutated    |-> mutated,
     done       |-> done,
     nowPlaying |-> nowPlaying,
     settled    |-> "",
     awaited    |-> << >>,
     thrown     |-> FALSE,
     cached     |-> FALSE]

Resumed(zones, done, nowPlaying, settled, zone) ==
    [Turn("resume", zones, FALSE, done, nowPlaying) EXCEPT
        !.settled = settled, !.awaited = << zone >>]

NoTurn == Turn("init", << >>, FALSE, FALSE, << >>)

\* Which of the two subscription callbacks the collaborator has been given.
Subscriptions(zones, outputs) == [zones |-> zones, outputs |-> outputs]

\* RoonClient (client.ts 30-41) in its environment: host is ROON_HOST, None
\* when it is not set; isAuthorized is the field (currentCore is null exactly
\* when it is false); connections counts the connections opened by
\* ws_connect whose onclose has not been called, reconnects the reconnect
\* timers that have not fired, each as the time it was set at.
Client(host, isAuthorized, connections, reconnects) ==
    [host |-> host, isAuthorized |-> isAuthorized,
     connections |-> connections, reconnects |-> reconnects]

\* The event loop (Node.js).  A turn runs the calls the collaborators make,
\* each up to the first await of the handler called, and then the microtask
\* queue until it is empty: every await, of a settled promise too, puts the
\* rest of the async function at the end of that queue.  No call arrives
\* while the queue is being run.
CanCall == ~draining /\ Len(microtasks) < MaxQueued

\* A timer's callback runs in a turn of its own.
Idle == ~draining /\ microtasks = << >>

\* TransportManager after construction (transport.ts 71-74), nothing written.
TransportInit ==
    /\ transportService = FALSE
    /\ allZones = << >>
    /\ allOutputs = << >>
    /\ tasks = << >>
    /\ stdout = << >>
    /\ turn = NoTurn
    /\ subscriptions = Subscriptions(FALSE, FALSE)
    /\ microtasks = << >>
    /\ draining = FALSE
    /\ client = Client(<< >>, FALSE, 0, << >>)

(***************************************************************************)
(* The cache on its own: get, set, has and clear called in any order, with *)
(* time passing in between.                                                *)
(***************************************************************************)
CacheInit ==
    /\ now = 0
    /\ cache = WarmCache
    /\ last = NoOp
    /\ history = HistoryOf(cache)
    /\ imageService = FALSE
    /\ fetches = << >>
    /\ requests = 0
    /\ TransportInit

Get(key) ==
    LET r == LRUGet(cache, key, now) IN
    /\ cache' = r.cache
    /\ last' = Done("get", key, r.value, cache, r.cache, now, history, NoFetch)
    /\ history' = Dropped(IF r.value # undefined THEN UsedByGet(history, key) ELSE history,
                          r.cache)
    /\ UNCHANGED <<now, imageVars, transportVars>>

Set(key, value) ==
    LET c == LRUSet(cache, key, value, now) IN
    /\ cache' = c
    /\ last' = Done("set", key, value, cache, c, now, history, NoFetch)
    /\ history' = Dropped(UsedBySet(history, key, value, now), c)
    /\ UNCHANGED <<now, imageVars, transportVars>>

Has(key) ==
    LET r == LRUHas(cache, key, now) IN
    /\ cache' = r.cache
    /\ last' = Done("has", key, r.value, cache, r.cache, now, history, NoFetch)
    /\ history' = Dropped(history, r.cache)
    /\ UNCHANGED <<now, imageVars, transportVars>>

Clear ==
    /\ cache' = LRUClear(cache)
    /\ last' = Done("clear", "", undefined, cache, LRUClear(cache), now, history, NoFetch)
    /\ history' = Dropped(history, LRUClear(cache))
    /\ UNCHANGED <<now, imageVars, transportVars>>

Tick(d) ==
    /\ Idle
    /\ now + d \in ClockTimes
    /\ now' = now + d
    /\ UNCHANGED <<cache, last, history, imageVars, transportVars>>

CacheNext ==
    \/ \E key \in CacheKeys : Get(key)
    \/ \E key \in CacheKeys, value \in Values : Set(key, value)
    \/ \E key \in CacheKeys : Has(key)
    \/ Clear
    \/ \E d \in ClockSteps : Tick(d)

SpecCache == CacheInit /\ [][CacheNext]_vars

(***************************************************************************)
(* ImageManager (image.ts 103-236).                                        *)
(*                                                                         *)
(* A fetch is one getImageAsDataUrl call: one get_image request, its       *)
(* deadline timer and its promise.  timer is "armed" while timeoutId holds *)
(* the timer, "fired" once the timer's callback has run and "cleared" once *)
(* the collaborator's callback has cleared it; timeoutId is null in the    *)
(* last two.  settles counts the calls of resolve and reject.  task is the *)
(* zone burst awaiting the fetch, 0 when fetchArtwork was called directly. *)
(***************************************************************************)
\* resolve(value) or reject(error): only the first call settles the promise.
Settle(f, outcome, value) ==
    IF f.promise = "pending"
    THEN [f EXCEPT !.promise = outcome, !.value = value, !.settles = @ + 1]
    ELSE [f EXCEPT !.settles = @ + 1]

OnTimeoutNoReject(f) == [f EXCEPT !.timer = "fired"]

\* The deadline timer's callback (image.ts 172-175).
OnTimeout(f) == Settle([f EXCEPT !.timer = "fired"], "rejected", undefined)

\* The answers of the image collaborator: an error, or a content type and a
\* body; hasBody is FALSE when the body is not a Buffer (toString throws).
Responses ==
    {[error |-> TRUE, contentType |-> "", hasBody |-> FALSE, body |-> << >>]}
    \cup {[error |-> FALSE, contentType |-> ct, hasBody |-> TRUE, body |-> b] :
             ct \in ContentTypes, b \in Bodies}
    \cup {[error |-> FALSE, contentType |-> "", hasBody |-> FALSE, body |-> << >>]}

OnImageResponseUnguarded(f, resp) ==
    LET g == [f EXCEPT !.timer = IF @ = "armed" THEN "cleared" ELSE @,
                       !.answered = TRUE] IN
    IF resp.error THEN Settle(g, "rejected", undefined)
    ELSE IF ~resp.hasBody THEN Settle(g, "rejected", undefined)
    ELSE Settle(g, "fulfilled", DataUrl(resp.contentType, resp.body))

\* The get_image callback (image.ts 188-217).
OnImageResponse(f, resp) ==
    IF f.timer # "armed" THEN [f EXCEPT !.answered = TRUE]
    ELSE LET g == [f EXCEPT !.timer = "cleared", !.answered = TRUE] IN
         IF resp.error THEN Settle(g, "rejected", undefined)
         ELSE IF ~resp.hasBody THEN Settle(g, "rejected", undefined)
         ELSE Settle(g, "fulfilled", DataUrl(resp.contentType, resp.body))

FetchArtworkCallAlwaysRequests(c, svc, key, t) ==
    IF key \in Falsy THEN [outcome |-> "resolved", value |-> undefined, cache |-> c]
    ELSE LET r == LRUGet(c, key, t) IN
         IF ~svc THEN [outcome |-> "resolved", value |-> undefined, cache |-> r.cache]
         ELSE [outcome |-> "request", value |-> undefined, cache |-> r.cache]

FetchArtworkCallNoServiceTest(c, svc, key, t) ==
    IF key \in Falsy THEN [outcome |-> "resolved", value |-> undefined, cache |-> c]
    ELSE LET r == LRUGet(c, key, t) IN
         IF r.value \notin Falsy
         THEN [outcome |-> "resolved", value |-> r.value, cache |-> r.cache]
         ELSE [outcome |-> "request", value |-> undefined, cache |-> r.cache]

FetchArtworkCallNoKeyTest(c, svc, key, t) ==
    LET r == LRUGet(c, key, t) IN
    IF r.value \notin Falsy
    THEN [outcome |-> "resolved", value |-> r.value, cache |-> r.cache]
    ELSE IF ~svc
    THEN [outcome |-> "resolved", value |-> undefined, cache |-> r.cache]
    ELSE [outcome |-> "request", value |-> undefined, cache |-> r.cache]

\* fetchArtwork up to its await (image.ts 129-148): the value it resolves to at
\* once, or the request it makes.
FetchArtworkCall(c, svc, key, t) ==
    IF key \in Falsy THEN [outcome |-> "resolved", value |-> undefined, cache |-> c]
    ELSE LET r == LRUGet(c, key, t) IN
         IF r.value \notin Falsy
         THEN [outcome |-> "resolved", value |-> r.value, cache |-> r.cache]
         ELSE IF ~svc
         THEN [outcome |-> "resolved", value |-> undefined, cache |-> r.cache]
         ELSE [outcome |-> "request", value |-> undefined, cache |-> r.cache]

FetchArtworkResumeStoresAlways(c, f, t) ==
    [value |-> f.value, cache |-> LRUSet(c, f.key, f.value, t)]

\* fetchArtwork after its await (image.ts 148-158), f being the settled fetch.
FetchArtworkResume(c, f, t) ==
    IF f.promise = "fulfilled"
    THEN [value |-> f.value, cache |-> LRUSet(c, f.key, f.value, t)]
    ELSE [value |-> undefined, cache |-> c]

\* The history after fetchArtwork's cache.get of key returned value.
AfterGet(u, key, value, c) ==
    Dropped(IF value \notin Falsy THEN UsedByGet(u, key) ELSE u, c)

\* setImageService (image.ts 110-113)
SetImageService ==
    /\ CanCall
    /\ imageService' = TRUE
    /\ last' = Done("setImageService", "", undefined, cache, cache, now, history, NoFetch)
    /\ UNCHANGED <<now, cache, history, fetches, requests, transportVars>>

\* clearImageService (image.ts 119-123), which calls clearCache
ClearImageService ==
    /\ CanCall
    /\ imageService' = FALSE
    /\ cache' = LRUClear(cache)
    /\ history' = Dropped(history, LRUClear(cache))
    /\ last' = Done("clearImageService", "", undefined, cache, LRUClear(cache), now, history, NoFetch)
    /\ UNCHANGED <<now, fetches, requests, transportVars>>

\* clearCache (image.ts 224-228)
ClearCache ==
    /\ CanCall
    /\ cache' = LRUClear(cache)
    /\ history' = Dropped(history, LRUClear(cache))
    /\ last' = Done("clearCache", "", undefined, cache, LRUClear(cache), now, history, NoFetch)
    /\ UNCHANGED <<now, imageService, fetches, requests, transportVars>>

\* A fetch stays on record until nothing more can happen to it: its timer has
\* fired or been cleared and its callback has been called.
Live(f) == f.timer = "armed" \/ ~f.answered

FetchIds == {fetches[i].id : i \in 1..Len(fetches)}

FetchById(id) == fetches[CHOOSE i \in 1..Len(fetches) : fetches[i].id = id]

\* fetches with fetch g in place of the fetch of the same id, if g is live.
Replaced(fs, g) ==
    SelectSeq([i \in 1..Len(fs) |-> IF fs[i].id = g.id THEN g ELSE fs[i]], Live)

FetchArtworkCoalesced(key) ==
    LET r == FetchArtworkCall(cache, imageService, key, now)
        joins == \E i \in 1..Len(fetches) :
                    fetches[i].key = key /\ fetches[i].promise = "pending"
        sends == r.outcome = "request" /\ ~joins
        f == IF sends THEN NewFetch(requests + 1, key, 0, now) ELSE NoFetch
    IN
    /\ CanCall
    /\ sends => requests < MaxFetches
    /\ cache' = r.cache
    /\ history' = IF key \in Falsy THEN history
                  ELSE AfterGet(history, key, LRUGet(cache, key, now).value, r.cache)
    /\ fetches' = IF sends THEN Append(fetches, f) ELSE fetches
    /\ requests' = IF sends THEN requests + 1 ELSE requests
    /\ last' = Done("fetchArtwork", key, r.value, cache, r.cache, now, history, f)
    /\ UNCHANGED <<now, imageService, transportVars>>

\* fetchArtwork(key) called directly: the call runs up to its await of
\* getImageAsDataUrl (image.ts 129-148), or to its end.
FetchArtwork(key) ==
    LET r == FetchArtworkCall(cache, imageService, key, now)
        f == IF r.outcome = "request" THEN NewFetch(requests + 1, key, 0, now) ELSE NoFetch
    IN
    /\ CanCall
    /\ r.outcome = "request" => requests < MaxFetches
    /\ cache' = r.cache
    /\ history' = IF key \in Falsy THEN history
                  ELSE AfterGet(history, key, LRUGet(cache, key, now).value, r.cache)
    /\ fetches' = IF r.outcome = "request" THEN Append(fetches, f) ELSE fetches
    /\ requests' = IF r.outcome = "request" THEN requests + 1 ELSE requests
    /\ last' = Done("fetchArtwork", key, r.value, cache, r.cache, now, history, f)
    /\ UNCHANGED <<now, imageService, transportVars>>

\* A call of handleZonesUpdate: queue is what is left of playingZones, its
\* first zone being the one whose now_playing is being prepared; zones is the
\* burst's list, nowPlaying the now_playing messages the call has written so
\* far and fetch the request the call waits for, 0 when it waits for none.
Task(id, queue, zones, nowPlaying) ==
    [fetch |-> id, queue |-> queue, zones |-> zones, nowPlaying |-> nowPlaying]

\* fetchArtwork was not called by handleZonesUpdate.
NoCall == Task(0, << >>, << >>, << >>)

\* A continuation in the microtask queue: the rest of the async function
\* `at` after its await.  fetch is the settled getImageAsDataUrl promise that
\* fetchArtwork awaited (image.ts 148) and op tells what settled it; value is
\* what fetchArtwork resolved to, for extractAndEmitNowPlaying (transport.ts
\* 402); call is the handleZonesUpdate call the function runs for.
Job(at, f, op, value, call) ==
    [at |-> at, fetch |-> f, op |-> op, value |-> value, call |-> call]

\* The microtask queue after its first continuation has run and has put the
\* continuations more at its end.
AfterJob(more) == Tail(microtasks) \o more

\* The collaborator calls the get_image callback of fetch id with resp
\* (image.ts 188-217); when that settles the promise, the rest of
\* fetchArtwork is put in the microtask queue.
ImageResponse(id, resp) ==
    LET f == FetchById(id)
        g == OnImageResponse(f, resp)
        settled == f.promise = "pending" /\ g.promise # "pending"
    IN
    /\ CanCall
    /\ ~f.answered
    /\ f.task = 0
    /\ fetches' = Replaced(fetches, g)
    /\ microtasks' = IF settled
                     THEN Append(microtasks,
                                 Job("fetchArtwork", g,
                                     IF resp.error THEN "errorResponse" ELSE "response",
                                     undefined, NoCall))
                     ELSE microtasks
    /\ last' = Done(IF f.timer # "armed" THEN "lateResponse" ELSE "answer",
                    f.key, undefined, cache, cache, now, history, g)
    /\ UNCHANGED <<now, cache, history, imageService, requests, transportService,
                   allZones, allOutputs, tasks, stdout, turn, subscriptions, draining, client>>

\* The deadline timer of fetch id fires, at its deadline or later (image.ts
\* 172-175), in a turn of its own; the rest of fetchArtwork is put in the
\* microtask queue.
ImageTimeout(id) ==
    LET f == FetchById(id)
        g == OnTimeout(f)
        settled == f.promise = "pending" /\ g.promise # "pending"
    IN
    /\ Idle
    /\ f.timer = "armed"
    /\ f.task = 0
    /\ now' = IF now < f.startedAt + IMAGE_FETCH_TIMEOUT_MS
              THEN f.startedAt + IMAGE_FETCH_TIMEOUT_MS ELSE now
    /\ fetches' = Replaced(fetches, g)
    /\ microtasks' = IF settled
                     THEN Append(microtasks, Job("fetchArtwork", g, "timeout", undefined, NoCall))
                     ELSE microtasks
    /\ last' = Done("timer", f.key, undefined, cache, cache, now', history, g)
    /\ UNCHANGED <<cache, history, imageService, requests, transportService,
                   allZones, allOutputs, tasks, stdout, turn, subscriptions, draining, client>>

\* The first continuation of the microtask queue is the rest of a
\* fetchArtwork that was called directly (image.ts 148-158).
ResumeFetchArtwork ==
    /\ microtasks # << >>
    /\ Head(microtasks).at = "fetchArtwork"
    /\ Head(microtasks).call = NoCall
    /\ \E j \in {Head(microtasks)} :
       \E r \in {FetchArtworkResume(cache, j.fetch, now)} :
          /\ cache' = r.cache
          /\ history' = IF j.fetch.promise = "fulfilled"
                        THEN Dropped(UsedBySet(history, j.fetch.key, j.fetch.value, now), r.cache)
                        ELSE history
          /\ last' = Done(j.op, j.fetch.key, r.value, cache, r.cache, now, history, j.fetch)
    /\ microtasks' = AfterJob(<< >>)
    /\ draining' = (AfterJob(<< >>) # << >>)
    /\ UNCHANGED <<now, imageVars, transportService, allZones, allOutputs, tasks, stdout,
                   turn, subscriptions, client>>

\* More than an hour passes.
LongWaits == {CACHE_TTL_MS + 1}

ImageKeyArgs == ImageKeys \cup Falsy

ImageInit ==
    /\ now = 0
    /\ cache = << >>
    /\ last = NoOp
    /\ history = HistoryOf(cache)
    /\ imageService = FALSE
    /\ fetches = << >>
    /\ requests = 0
    /\ TransportInit

ImageNext ==
    \/ Idle /\ SetImageService
    \/ Idle /\ ClearImageService
    \/ Idle /\ ClearCache
    \/ Idle /\ \E key \in ImageKeyArgs : FetchArtwork(key)
    \/ Idle /\ \E id \in FetchIds, resp \in Responses : ImageResponse(id, resp)
    \/ \E id \in FetchIds : ImageTimeout(id)
    \/ ResumeFetchArtwork
    \/ \E d \in LongWaits : Tick(d)

SpecImage == ImageInit /\ [][ImageNext]_vars

(***************************************************************************)
(* The image manager with its timers: a timer that setTimeout has armed    *)
(* fires unless clearTimeout disarms it first.  The image collaborator is  *)
(* free to answer a request or never to answer it.                         *)
(***************************************************************************)
FetchNext ==
    \/ SetImageService
    \/ \E key \in ImageKeys : FetchArtwork(key)
    \/ \E id \in FetchIds, resp \in Responses : ImageResponse(id, resp)
    \/ \E id \in FetchIds : ImageTimeout(id)
    \/ ResumeFetchArtwork

TimersFire == \A id \in 1..MaxFetches : WF_vars(id \in FetchIds /\ ImageTimeout(id))

\* The event loop runs the microtask queue until it is empty.
MicrotasksRun == WF_vars(ResumeFetchArtwork)

SpecFetchFair == ImageInit /\ [][FetchNext]_vars /\ TimersFire /\ MicrotasksRun

(***************************************************************************)
(* TransportManager (transport.ts 70-409): pure parts.                     *)
(*                                                                         *)
(* An optional field is a sequence: None when the field is missing,        *)
(* Some(x) when it holds x.  A Map is the sequence of its values in        *)
(* insertion order.                                                        *)
(***************************************************************************)
None == << >>

Some(x) == << x >>

IsSome(m) == Len(m) > 0

MapRoonStateLoadingAsStopped(state) ==
    CASE state = "playing" -> "playing"
      [] state = "paused"  -> "paused"
      [] OTHER             -> "stopped"

\* mapRoonStateToPlaybackState (transport.ts 171-182)
MapRoonStateToPlaybackState(state) ==
    CASE state = "playing" -> "playing"
      [] state = "paused"  -> "paused"
      [] state = "loading" -> "loading"
      [] OTHER             -> "stopped"

\* x || ''
OrEmpty(x) == IF x \in Falsy THEN "" ELSE x

ExtractMetadataMerging(nowPlaying) ==
    LET three == IF IsSome(nowPlaying.three_line) THEN nowPlaying.three_line[1]
                 ELSE [line1 |-> "", line2 |-> "", line3 |-> ""]
        two   == IF IsSome(nowPlaying.two_line) THEN nowPlaying.two_line[1]
                 ELSE [line1 |-> "", line2 |-> ""]
        one   == IF IsSome(nowPlaying.one_line) THEN nowPlaying.one_line[1]
                 ELSE [line1 |-> ""]
    IN [title  |-> IF three.line1 \notin Falsy THEN three.line1
                   ELSE IF two.line1 \notin Falsy THEN two.line1
                   ELSE OrEmpty(one.line1),
        artist |-> IF three.line2 \notin Falsy THEN three.line2 ELSE OrEmpty(two.line2),
        album  |-> OrEmpty(three.line3)]

\* extractMetadata (transport.ts 356-376)
ExtractMetadata(nowPlaying) ==
    IF IsSome(nowPlaying.three_line) THEN
        [title  |-> OrEmpty(nowPlaying.three_line[1].line1),
         artist |-> OrEmpty(nowPlaying.three_line[1].line2),
         album  |-> OrEmpty(nowPlaying.three_line[1].line3)]
    ELSE IF IsSome(nowPlaying.two_line) THEN
        [title  |-> OrEmpty(nowPlaying.two_line[1].line1),
         artist |-> OrEmpty(nowPlaying.two_line[1].line2),
         album  |-> ""]
    ELSE IF IsSome(nowPlaying.one_line) THEN
        [title  |-> OrEmpty(nowPlaying.one_line[1].line1),
         artist |-> "",
         album  |-> ""]
    ELSE [title |-> "", artist |-> "", album |-> ""]

\* zone.state || 'stopped'
StateOrStopped(zone) == IF zone.state \in Falsy THEN "stopped" ELSE zone.state

ZoneInfoOfAnyState(zone) ==
    [zone_id      |-> zone.zone_id,
     display_name |-> zone.display_name,
     state        |-> MapRoonStateToPlaybackState(StateOrStopped(zone)),
     now_playing  |-> IF IsSome(zone.now_playing)
                      THEN Some(ExtractMetadata(zone.now_playing[1]))
                      ELSE None]

\* The entry of one zone in the zone list (transport.ts 121-142).
ZoneInfoOf(zone) ==
    LET state == MapRoonStateToPlaybackState(StateOrStopped(zone)) IN
    [zone_id      |-> zone.zone_id,
     display_name |-> zone.display_name,
     state        |-> state,
     now_playing  |-> IF IsSome(zone.now_playing) /\ state \in {"playing", "paused"}
                      THEN Some(ExtractMetadata(zone.now_playing[1]))
                      ELSE None]

InactiveInfoOfPlainName(output) ==
    [zone_id      |-> "output:" \o output.output_id,
     display_name |-> output.display_name,
     state        |-> "stopped",
     now_playing  |-> None]

\* The entry of an output that is in no zone (transport.ts 154-158).
InactiveInfoOf(output) ==
    [zone_id      |-> "output:" \o output.output_id,
     display_name |-> output.display_name \o " (Inactive)",
     state        |-> "stopped",
     now_playing  |-> None]

ZoneOutputIdsFirstZone(zones) ==
    IF Len(zones) = 0 THEN {}
    ELSE {zones[1].outputs[j].output_id : j \in 1..Len(zones[1].outputs)} \ Falsy

\* zoneOutputIds (transport.ts 111-118)
ZoneOutputIds(zones) ==
    UNION {{zones[i].outputs[j].output_id : j \in 1..Len(zones[i].outputs)} :
              i \in 1..Len(zones)} \ Falsy

ZoneListAllOutputs(zones, outputs) ==
    [i \in 1..Len(zones) |-> ZoneInfoOf(zones[i])]
    \o [i \in 1..Len(outputs) |-> InactiveInfoOf(outputs[i])]

\* The list emitCurrentZoneList builds (transport.ts 121-160).
ZoneList(zones, outputs) ==
    LET zoneOutputIds == ZoneOutputIds(zones)
        inactive      == SelectSeq(outputs, LAMBDA o : o.output_id \notin zoneOutputIds)
    IN [i \in 1..Len(zones) |-> ZoneInfoOf(zones[i])]
       \o [i \in 1..Len(inactive) |-> InactiveInfoOf(inactive[i])]

\* emitCurrentZoneList (transport.ts 109-166): the messages it writes.  Each
\* message is noted with the zone map and the output map it was built from.
EmitCurrentZoneList(zones, outputs) ==
    IF Len(ZoneList(zones, outputs)) > 0
    THEN << [type    |-> "zone_list",
             zones   |-> ZoneList(zones, outputs),
             zoneMap |-> zones,
             outputMap |-> outputs] >>
    ELSE << >>

\* output.emitNowPlaying (part_000 114-131); artwork is undefined when omitted.
NowPlayingMessage(zone_id, title, artist, album, state, artwork) ==
    [type    |-> "now_playing",
     zone_id |-> zone_id,
     title   |-> title,
     artist  |-> artist,
     album   |-> album,
     state   |-> state,
     artwork |-> artwork]

\* Position of id in a Map keyed by field zone_id or output_id, 0 if absent.
ZoneIndex(zones, id) ==
    IF \E i \in 1..Len(zones) : zones[i].zone_id = id
    THEN CHOOSE i \in 1..Len(zones) : zones[i].zone_id = id
    ELSE 0

OutputIndex(outputs, id) ==
    IF \E i \in 1..Len(outputs) : outputs[i].output_id = id
    THEN CHOOSE i \in 1..Len(outputs) : outputs[i].output_id = id
    ELSE 0

RECURSIVE DeleteZonesSplice(_, _)
DeleteZonesSplice(zones, ids) ==
    IF Len(ids) = 0 THEN zones
    ELSE DeleteZonesSplice(IF ZoneIndex(zones, ids[1]) = 0
                           THEN SubSeq(zones, 1, Len(zones) - 1)
                           ELSE RemoveAt(zones, ZoneIndex(zones, ids[1])),
                           Tail(ids))

\* allZones.delete(id) for every id of ids, in order
RECURSIVE DeleteZones(_, _)
DeleteZones(zones, ids) ==
    IF Len(ids) = 0 THEN zones
    ELSE DeleteZones(IF ZoneIndex(zones, ids[1]) = 0 THEN zones
                     ELSE RemoveAt(zones, ZoneIndex(zones, ids[1])),
                     Tail(ids))

RECURSIVE UpsertZonesMerging(_, _)
UpsertZonesMerging(zones, list) ==
    IF Len(list) = 0 THEN zones
    ELSE UpsertZonesMerging(
             IF ZoneIndex(zones, list[1].zone_id) = 0
             THEN Append(zones, list[1])
             ELSE [zones EXCEPT ![ZoneIndex(zones, list[1].zone_id)] =
                      [list[1] EXCEPT !.now_playing =
                          IF IsSome(@) THEN @
                          ELSE zones[ZoneIndex(zones, list[1].zone_id)].now_playing]],
             Tail(list))

\* allZones.set(zone.zone_id, zone) for every zone of list, in order
RECURSIVE UpsertZones(_, _)
UpsertZones(zones, list) ==
    IF Len(list) = 0 THEN zones
    ELSE UpsertZones(IF ZoneIndex(zones, list[1].zone_id) = 0
                     THEN Append(zones, list[1])
                     ELSE [zones EXCEPT ![ZoneIndex(zones, list[1].zone_id)] = list[1]],
                     Tail(list))

RECURSIVE DeleteOutputs(_, _)
DeleteOutputs(outputs, ids) ==
    IF Len(ids) = 0 THEN outputs
    ELSE DeleteOutputs(IF OutputIndex(outputs, ids[1]) = 0 THEN outputs
                       ELSE RemoveAt(outputs, OutputIndex(outputs, ids[1])),
                       Tail(ids))

RECURSIVE UpsertOutputs(_, _)
UpsertOutputs(outputs, list) ==
    IF Len(list) = 0 THEN outputs
    ELSE UpsertOutputs(IF OutputIndex(outputs, list[1].output_id) = 0
                       THEN Append(outputs, list[1])
                       ELSE [outputs EXCEPT ![OutputIndex(outputs, list[1].output_id)] = list[1]],
                       Tail(list))

\* a || b || [] for two optional lists (an empty list counts as present)
FirstList(a, b) == IF IsSome(a) THEN a[1] ELSE IF IsSome(b) THEN b[1] ELSE << >>

\* The list is present and not empty.
NonEmpty(m) == IsSome(m) /\ Len(m[1]) > 0

\* The test that makes handleZonesUpdate return at once (transport.ts 303).
SeekOnly(data) ==
    /\ NonEmpty(data.zones_seek_changed)
    /\ ~IsSome(data.zones)
    /\ ~IsSome(data.zones_changed)

PlayingZonesFirstOnly(list) ==
    LET all == SelectSeq(list, LAMBDA z : z.state = "playing" \/ z.state = "paused")
    IN IF Len(all) > 0 THEN << all[1] >> ELSE << >>

\* playingZones (transport.ts 340-342)
PlayingZones(list) ==
    SelectSeq(list, LAMBDA z : z.state = "playing" \/ z.state = "paused")

(***************************************************************************)
(* What the Roon core sends: zone records, output records and the subscription  *)
(* payloads made of them.                                                  *)
(***************************************************************************)
Lines(line1, line2, line3) == [line1 |-> line1, line2 |-> line2, line3 |-> line3]

ThreeLine(image_key, line1, line2, line3) ==
    [image_key  |-> image_key,
     three_line |-> Some(Lines(line1, line2, line3)),
     two_line   |-> None,
     one_line   |-> None]

Zone(zone_id, display_name, outputIds, state, now_playing) ==
    [zone_id      |-> zone_id,
     display_name |-> display_name,
     outputs      |-> [i \in 1..Len(outputIds) |-> [output_id |-> outputIds[i]]],
     state        |-> state,
     now_playing  |-> now_playing]

Z1Playing ==
    Zone("z1", "Living Room", << "o1" >>, "playing",
         Some(ThreeLine("img1", "Song", "Artist", "Album")))

Z1Stopped == Zone("z1", "Living Room", << "o1" >>, "stopped", None)

Z2Paused ==
    Zone("z2", "Kitchen", << >>, "paused", Some(ThreeLine("img1", "Song", "Artist", "Album")))

Z2Bare == Zone("z2", "Kitchen", << "o2" >>, "playing", None)

ZoneIds == {"z1", "z2"}

ZoneLists ==
    { << Z1Playing >>, << Z1Stopped >>, << Z2Bare >>, << Z1Playing, Z2Paused >> }

\* The payload of a zone subscription callback.
ZonesData(zones, zones_changed, zones_removed, zones_seek_changed) ==
    [zones              |-> zones,
     zones_changed      |-> zones_changed,
     zones_removed      |-> zones_removed,
     zones_seek_changed |-> zones_seek_changed]

SeekLists == {None, Some(<< [zone_id |-> "z1", seek_position |-> 1] >>)}

RemovedZoneLists == {None, Some(<< "z1" >>)}

ZoneBursts ==
    {ZonesData(Some(list), None, None, None) : list \in {<< >>, << Z1Playing, Z2Paused >>}}
    \cup {ZonesData(None, changed, removed, None) :
             changed \in {None} \cup {Some(list) : list \in ZoneLists},
             removed \in RemovedZoneLists}
    \cup {ZonesData(None, None, None, seek) : seek \in SeekLists}

Output(output_id, display_name) == [output_id |-> output_id, display_name |-> display_name]

O1 == Output("o1", "Speaker")

OutputLists == {None, Some(<< O1 >>)}

RemovedOutputLists == {None, Some(<< "o1" >>)}

\* The payload of an output subscription callback.
OutputsData(outputs, outputs_changed, outputs_removed) ==
    [outputs         |-> outputs,
     outputs_changed |-> outputs_changed,
     outputs_removed |-> outputs_removed]

OutputBursts ==
    {OutputsData(Some(<< O1 >>), None, None)}
    \cup {OutputsData(None, changed, removed) :
             changed \in OutputLists, removed \in RemovedOutputLists}

(***************************************************************************)
(* TransportManager and RoonClient: the handlers.                          *)
(*                                                                         *)
(* A call of a handler runs up to its first await.  handleZonesUpdate      *)
(* awaits extractAndEmitNowPlaying for every zone of playingZones          *)
(* (transport.ts 346), which awaits fetchArtwork when the zone has an      *)
(* image key (402), which awaits getImageAsDataUrl when it sends a request *)
(* (image.ts 148).  The rest of each function runs as a continuation of    *)
(* the microtask queue.                                                    *)
(***************************************************************************)
\* extractAndEmitNowPlaying for a zone that is stopped or has no now_playing
\* (transport.ts 385-389)
StoppedMessage(zone) == NowPlayingMessage(zone.zone_id, "", "", "", "stopped", undefined)

\* extractAndEmitNowPlaying's emission for a zone that plays (transport.ts 391-406)
PlayingMessage(zone, artwork) ==
    LET meta == ExtractMetadata(zone.now_playing[1]) IN
    NowPlayingMessage(zone.zone_id, meta.title, meta.artist, meta.album,
                      MapRoonStateToPlaybackState(StateOrStopped(zone)), artwork)

\* What a part of handleZonesUpdate leaves: the messages it wrote, the cache,
\* and how the call goes on: "done" when the call has ended, "loop" when it
\* awaits an extractAndEmitNowPlaying that has ended, "extract" when that
\* awaits a fetchArtwork that has ended with value, "wait" when fetchArtwork
\* has sent a request and awaits the answer.
Part(written, c, next, value) ==
    [written |-> written, cache |-> c, next |-> next, value |-> value]

\* extractAndEmitNowPlaying(zone) up to its await of fetchArtwork, or to its
\* end (transport.ts 381-403).
ExtractCall(zone, c, svc, t) ==
    IF StateOrStopped(zone) = "stopped" \/ ~IsSome(zone.now_playing)
    THEN Part(<< StoppedMessage(zone) >>, c, "loop", undefined)
    ELSE IF zone.now_playing[1].image_key \in Falsy
    THEN Part(<< PlayingMessage(zone, undefined) >>, c, "loop", undefined)
    ELSE LET r == FetchArtworkCall(c, svc, zone.now_playing[1].image_key, t) IN
         IF r.outcome = "request"
         THEN Part(<< >>, r.cache, "wait", undefined)
         ELSE Part(<< >>, r.cache, "extract", r.value)

ExtractResumeDropsFailed(zone, artwork) ==
    IF artwork = undefined THEN << >> ELSE << PlayingMessage(zone, artwork) >>

\* extractAndEmitNowPlaying(zone) after its await of fetchArtwork, which gave
\* artwork (transport.ts 402-407).
ExtractResume(zone, artwork) == << PlayingMessage(zone, artwork) >>

\* The loop over playingZones (transport.ts 345-347) at the zone queue[1], up
\* to its await; the loop and the call end when no zone is left.
LoopStep(queue, c, svc, t) ==
    IF Len(queue) = 0 THEN Part(<< >>, c, "done", undefined)
    ELSE ExtractCall(queue[1], c, svc, t)

ApplyZonesUpdateNowPlayingFirst(data, zones, outputs, c, svc, t) ==
    LET removed == IF NonEmpty(data.zones_removed)
                   THEN DeleteZones(zones, data.zones_removed[1]) ELSE zones
        first   == IF NonEmpty(data.zones_removed)
                   THEN EmitCurrentZoneList(removed, outputs) ELSE << >>
        list    == FirstList(data.zones, data.zones_changed)
        k       == LoopStep(PlayingZones(list), c, svc, t)
    IN IF Len(list) = 0
       THEN [allZones |-> removed, list |-> list, queue |-> << >>]
            @@ Part(first, c, "done", undefined)
       ELSE [allZones |-> UpsertZones(removed, list), list |-> list,
             queue |-> PlayingZones(list)]
            @@ [k EXCEPT !.written =
                   first \o @ \o EmitCurrentZoneList(UpsertZones(removed, list), outputs)]

\* handleZonesUpdate past its seek-only test, up to its first await
\* (transport.ts 308-347); queue is playingZones.
ApplyZonesUpdate(data, zones, outputs, c, svc, t) ==
    LET removed == IF NonEmpty(data.zones_removed)
                   THEN DeleteZones(zones, data.zones_removed[1]) ELSE zones
        first   == IF NonEmpty(data.zones_removed)
                   THEN EmitCurrentZoneList(removed, outputs) ELSE << >>
        list    == FirstList(data.zones, data.zones_changed)
        k       == LoopStep(PlayingZones(list), c, svc, t)
    IN IF Len(list) = 0
       THEN [allZones |-> removed, list |-> list, queue |-> << >>]
            @@ Part(first, c, "done", undefined)
       ELSE [allZones |-> UpsertZones(removed, list), list |-> list,
             queue |-> PlayingZones(list)]
            @@ [k EXCEPT !.written =
                   first \o EmitCurrentZoneList(UpsertZones(removed, list), outputs) \o @]

\* The outcome of a zone callback that did not change the zone map.
ZonesUntouched(zones, c, written) ==
    [allZones |-> zones, list |-> << >>, queue |-> << >>] @@ Part(written, c, "done", undefined)

HandleZonesUpdateEmitsOnSeek(data, zones, outputs, c, svc, t) ==
    IF SeekOnly(data)
    THEN ZonesUntouched(zones, c, EmitCurrentZoneList(zones, outputs))
    ELSE ApplyZonesUpdate(data, zones, outputs, c, svc, t)

\* handleZonesUpdate up to its first await (transport.ts 298-351)
HandleZonesUpdate(data, zones, outputs, c, svc, t) ==
    IF SeekOnly(data)
    THEN ZonesUntouched(zones, c, << >>)
    ELSE ApplyZonesUpdate(data, zones, outputs, c, svc, t)

HandleOutputsUpdateEmitsTwice(data, zones, outputs) ==
    LET removed == IF NonEmpty(data.outputs_removed)
                   THEN DeleteOutputs(outputs, data.outputs_removed[1]) ELSE outputs
        first   == IF NonEmpty(data.outputs_removed)
                   THEN EmitCurrentZoneList(zones, removed) ELSE << >>
        all     == UpsertOutputs(removed, FirstList(data.outputs, data.outputs_changed))
    IN [allOutputs |-> all, written |-> first \o EmitCurrentZoneList(zones, all)]

\* handleOutputsUpdate (transport.ts 268-293)
HandleOutputsUpdate(data, zones, outputs) ==
    LET removed == IF NonEmpty(data.outputs_removed)
                   THEN DeleteOutputs(outputs, data.outputs_removed[1]) ELSE outputs
        all     == UpsertOutputs(removed, FirstList(data.outputs, data.outputs_changed))
    IN [allOutputs |-> all, written |-> EmitCurrentZoneList(zones, all)]

\* output.emitStatus (part_000 146-152)
StatusMessage(state, message) == [type |-> "status", state |-> state, message |-> message]

\* output.emitError (part_000 157-162)
ErrorMessage(message) == [type |-> "error", message |-> message]

NowPlayingOnly(written) == SelectSeq(written, LAMBDA m : m.type = "now_playing")

TaskIds == {tasks[i].fetch : i \in 1..Len(tasks)}

TaskOf(id) == tasks[CHOOSE i \in 1..Len(tasks) : tasks[i].fetch = id]

\* The requests of zone bursts whose timer or callback is still to come.
TaskFetchIds == {fetches[i].id : i \in {n \in 1..Len(fetches) : fetches[n].task # 0}}

\* What the subscriptions call back with (transport.ts 201-217, 241-255).
Bursts == {"Subscribed", "Changed"}

TransportErrors == {"NetworkError", "ConnectionError"}

ZonesCallbackClearsOnError(response, payload, zones, outputs, c, svc, t) ==
    IF response \in Bursts
    THEN IF ~IsSome(payload) THEN [thrown |-> TRUE] @@ ZonesUntouched(zones, c, << >>)
         ELSE [thrown |-> FALSE]
              @@ HandleZonesUpdate(payload[1], zones, outputs, c, svc, t)
    ELSE IF response \in TransportErrors
    THEN [thrown |-> FALSE]
         @@ ZonesUntouched(<< >>, c,
              << StatusMessage("disconnected", "Lost connection to Roon Core") >>)
    ELSE [thrown |-> FALSE] @@ ZonesUntouched(zones, c, << >>)

\* The callback given to subscribe_zones (transport.ts 197-218), up to the
\* first await of handleZonesUpdate.  payload is None when the collaborator
\* passes no data: `data.zones` (203) or `data.zones_changed` (208) then
\* throws a TypeError before handleZonesUpdate and its try block are entered.
ZonesCallback(response, payload, zones, outputs, c, svc, t) ==
    IF response \in Bursts
    THEN IF ~IsSome(payload) THEN [thrown |-> TRUE] @@ ZonesUntouched(zones, c, << >>)
         ELSE [thrown |-> FALSE]
              @@ HandleZonesUpdate(payload[1], zones, outputs, c, svc, t)
    ELSE IF response \in TransportErrors
    THEN [thrown |-> FALSE]
         @@ ZonesUntouched(zones, c,
              << StatusMessage("disconnected", "Lost connection to Roon Core") >>)
    ELSE [thrown |-> FALSE] @@ ZonesUntouched(zones, c, << >>)

\* The callback given to subscribe_outputs (transport.ts 241-255); a
\* transport error is logged only.  With no data, `data.outputs` (243) or
\* `data.outputs_changed` (246) throws a TypeError.
OutputsCallback(response, payload, zones, outputs) ==
    IF response \in Bursts
    THEN IF ~IsSome(payload)
         THEN [allOutputs |-> outputs, written |-> << >>, thrown |-> TRUE]
         ELSE [thrown |-> FALSE] @@ HandleOutputsUpdate(payload[1], zones, outputs)
    ELSE [allOutputs |-> outputs, written |-> << >>, thrown |-> FALSE]

\* The call of handleZonesUpdate after the part k of it has run: new is the
\* id of the request the part has sent, if it has sent one.
CallAfter(call, k, new) ==
    Task(IF k.next = "wait" THEN new ELSE 0,
         IF k.next = "loop" THEN Tail(call.queue) ELSE call.queue,
         call.zones,
         call.nowPlaying \o NowPlayingOnly(k.written))

\* The continuations that the part k of a call puts in the microtask queue.
JobsAfter(call, k, new) ==
    IF k.next \in {"loop", "extract"}
    THEN << Job(k.next, NoFetch, "", k.value, CallAfter(call, k, new)) >>
    ELSE << >>

\* The part k of a call of handleZonesUpdate has run at time t: its request,
\* if it has sent one, is on its way, and the call waits for it.
Proceeds(call, k, t) ==
    LET new == requests + 1 IN
    /\ k.next = "wait" => requests < MaxFetches
    /\ cache' = k.cache
    /\ stdout' = k.written
    /\ requests' = IF k.next = "wait" THEN new ELSE requests
    /\ tasks' = IF k.next = "wait" THEN Append(tasks, CallAfter(call, k, new)) ELSE tasks

\* The fetches after the part k of a call has run at time t, from the fetches
\* others.
FetchesAfter(others, call, k, t) ==
    IF k.next = "wait"
    THEN Append(others, NewFetch(requests + 1, call.queue[1].now_playing[1].image_key,
                                 requests + 1, t))
    ELSE others

\* The zone subscription calls back with response and payload; note is what
\* is kept on record of the call.  The collaborator holds the callback from
\* subscribe_zones on, whatever becomes of transportService.
ZonesNotified(response, payload, note) ==
    \E h \in {ZonesCallback(response, payload, allZones, allOutputs, cache, imageService, now)} :
    \E call \in {Task(0, h.queue, h.list, << >>)} :
    /\ CanCall
    /\ subscriptions.zones
    /\ Proceeds(call, h, now)
    /\ fetches' = FetchesAfter(fetches, call, h, now)
    /\ allZones' = h.allZones
    /\ microtasks' = microtasks \o JobsAfter(call, h, requests + 1)
    /\ turn' = [Turn("zones", h.list, h.allZones # allZones, h.next = "done" /\ ~h.thrown,
                     NowPlayingOnly(h.written)) EXCEPT !.thrown = h.thrown]
    /\ last' = note
    /\ UNCHANGED <<now, history, imageService, transportService, allOutputs,
                   subscriptions, draining, client>>

\* The zone subscription calls back with "Subscribed" or "Changed" and data
\* (transport.ts 196-203); note is what is kept on record of the call.
ZonesUpdateNoting(data, note) == ZonesNotified("Changed", Some(data), note)

ZonesUpdate(data) == ZonesUpdateNoting(data, last)

\* The output subscription calls back with response and payload; note is
\* what is kept on record of the call.  The collaborator holds the callback
\* from subscribe_outputs on.
OutputsNotified(response, payload, note) ==
    \E h \in {OutputsCallback(response, payload, allZones, allOutputs)} :
    /\ CanCall
    /\ subscriptions.outputs
    /\ allOutputs' = h.allOutputs
    /\ stdout' = h.written
    /\ turn' = [Turn("outputs", << >>, h.allOutputs # allOutputs, ~h.thrown, << >>)
                   EXCEPT !.thrown = h.thrown]
    /\ last' = note
    /\ UNCHANGED <<now, cache, history, imageVars, transportService, allZones, tasks,
                   subscriptions, loopVars, client>>

\* The output subscription calls back with "Subscribed" or "Changed" and data
\* (transport.ts 240-246); note is what is kept on record of the call.
OutputsUpdateNoting(data, note) == OutputsNotified("Changed", Some(data), note)

OutputsUpdate(data) == OutputsUpdateNoting(data, last)

\* tasks without the call that waits for fetch id.
TasksWithout(id) == SelectSeq(tasks, LAMBDA k : k.fetch # id)

\* The collaborator calls the get_image callback of a request of a zone burst
\* (image.ts 188-217); when that settles the promise, the rest of the
\* burst's fetchArtwork is put in the microtask queue.
TaskImageResponse(id, resp) ==
    \E f \in {FetchById(id)} :
    \E g \in {OnImageResponse(f, resp)} :
    LET settled == f.promise = "pending" /\ g.promise # "pending" IN
    /\ CanCall
    /\ f.task # 0
    /\ ~f.answered
    /\ fetches' = Replaced(fetches, g)
    /\ tasks' = IF settled THEN TasksWithout(id) ELSE tasks
    /\ microtasks' = IF settled
                     THEN Append(microtasks,
                                 Job("fetchArtwork", g,
                                     IF g.promise = "fulfilled" THEN "fulfilled" ELSE "error",
                                     undefined, TaskOf(id)))
                     ELSE microtasks
    /\ stdout' = << >>
    /\ turn' = Turn("answer", << >>, FALSE, FALSE, << >>)
    /\ UNCHANGED <<now, cache, last, history, imageService, requests, transportService,
                   allZones, allOutputs, subscriptions, draining, client>>

\* The deadline timer of a request of a zone burst fires, at its deadline or
\* later (image.ts 172-175), in a turn of its own; the rest of the burst's
\* fetchArtwork is put in the microtask queue.
TaskImageTimeout(id) ==
    \E f \in {FetchById(id)} :
    \E g \in {OnTimeout(f)} :
    LET settled == f.promise = "pending" /\ g.promise # "pending" IN
    /\ Idle
    /\ f.task # 0
    /\ f.timer = "armed"
    /\ now' = IF now < f.startedAt + IMAGE_FETCH_TIMEOUT_MS
              THEN f.startedAt + IMAGE_FETCH_TIMEOUT_MS ELSE now
    /\ fetches' = Replaced(fetches, g)
    /\ tasks' = IF settled THEN TasksWithout(id) ELSE tasks
    /\ microtasks' = IF settled
                     THEN Append(microtasks,
                                 Job("fetchArtwork", g, "timeout", undefined, TaskOf(id)))
                     ELSE microtasks
    /\ stdout' = << >>
    /\ turn' = Turn("timer", << >>, FALSE, FALSE, << >>)
    /\ UNCHANGED <<cache, last, history, imageService, requests, transportService,
                   allZones, allOutputs, subscriptions, draining, client>>

\* The first continuation of the microtask queue is the rest of a
\* fetchArtwork that a zone burst called (image.ts 148-158): it returns to
\* extractAndEmitNowPlaying, whose rest is put in the queue.
ResumeTaskFetchArtwork ==
    /\ microtasks # << >>
    /\ Head(microtasks).at = "fetchArtwork"
    /\ Head(microtasks).call # NoCall
    /\ \E j \in {Head(microtasks)} :
       \E r \in {FetchArtworkResume(cache, j.fetch, now)} :
          /\ cache' = r.cache
          /\ microtasks' = AfterJob(<< Job("extract", j.fetch, j.op, r.value, j.call) >>)
          /\ turn' = Turn("resume", j.call.zones, FALSE, FALSE, j.call.nowPlaying)
    /\ stdout' = << >>
    /\ draining' = TRUE
    /\ UNCHANGED <<now, last, history, imageVars, transportService, allZones, allOutputs,
                   tasks, subscriptions, client>>

\* The first continuation of the microtask queue is the rest of an
\* extractAndEmitNowPlaying (transport.ts 402-407): it writes the zone's
\* now_playing and returns to the loop, whose rest is put in the queue.
ResumeExtract ==
    /\ microtasks # << >>
    /\ Head(microtasks).at = "extract"
    /\ \E j \in {Head(microtasks)} :
       \E written \in {ExtractResume(j.call.queue[1], j.value)} :
       \E call \in {Task(0, Tail(j.call.queue), j.call.zones, j.call.nowPlaying \o written)} :
          /\ stdout' = written
          /\ microtasks' = AfterJob(<< Job("loop", NoFetch, "", undefined, call) >>)
          /\ turn' = Resumed(call.zones, FALSE, call.nowPlaying, j.op, j.call.queue[1])
    /\ draining' = TRUE
    /\ UNCHANGED <<now, cache, last, history, imageVars, transportService, allZones,
                   allOutputs, tasks, subscriptions, client>>

\* The first continuation of the microtask queue is the rest of
\* handleZonesUpdate's loop (transport.ts 345-347): it goes on to the next
\* zone, or ends.
ResumeLoop ==
    /\ microtasks # << >>
    /\ Head(microtasks).at = "loop"
    /\ \E call \in {Head(microtasks).call} :
       \E k \in {LoopStep(call.queue, cache, imageService, now)} :
          /\ Proceeds(call, k, now)
          /\ fetches' = FetchesAfter(fetches, call, k, now)
          /\ microtasks' = AfterJob(JobsAfter(call, k, requests + 1))
          /\ draining' = (AfterJob(JobsAfter(call, k, requests + 1)) # << >>)
          /\ turn' = Turn("resume", call.zones, FALSE, k.next = "done",
                          CallAfter(call, k, requests + 1).nowPlaying)
    /\ UNCHANGED <<now, last, history, imageService, transportService, allZones,
                   allOutputs, subscriptions, client>>

\* A core as core_paired passes it: display_name may be missing, and so may
\* services; transport is "none" when the core offers no transport service,
\* "ok" when it offers one that takes both subscriptions, "zones" when its
\* subscribe_zones throws or is missing and "outputs" when its
\* subscribe_outputs does; image tells whether it offers an image service.
Core(display_name, services, transport, image) ==
    [display_name |-> display_name, services |-> services,
     transport |-> transport, image |-> image]

\* String(v) as a template literal inserts it
String(v) == IF v = undefined THEN "undefined" ELSE IF v = null THEN "null" ELSE v

\* initializeServices (client.ts 120-143) with setTransportService,
\* subscribeToZones, subscribeToOutputs (transport.ts 83-93, 187-263) and
\* setImageService (image.ts 110-113)
InitializeServices(core, transport, image, subs) ==
    IF ~core.services
    THEN [transportService |-> transport, imageService |-> image, subscriptions |-> subs,
          written |-> << ErrorMessage("Failed to initialize Roon services") >>]
    ELSE [transportService |-> transport \/ core.transport # "none",
          imageService     |-> image \/ core.image,
          subscriptions    |->
              Subscriptions(subs.zones \/ core.transport \in {"ok", "outputs"},
                            subs.outputs \/ core.transport \in {"ok", "zones"}),
          written          |-> IF core.transport = "zones"
                               THEN << ErrorMessage("Failed to subscribe to zones") >>
                               ELSE << >>]

\* core_paired: handleCorePaired and initializeServices (client.ts 57-60,
\* 86-96, 120-143)
CorePaired(core) ==
    \E h \in {InitializeServices(core, transportService, imageService, subscriptions)} :
    /\ CanCall
    /\ client' = [client EXCEPT !.isAuthorized = TRUE]
    /\ transportService' = h.transportService
    /\ imageService' = h.imageService
    /\ subscriptions' = h.subscriptions
    /\ stdout' = << StatusMessage("connected", "Connected to " \o String(core.display_name)) >>
                  \o h.written
    /\ turn' = Turn("paired", << >>, FALSE, TRUE, << >>)
    /\ UNCHANGED <<now, cache, last, history, fetches, requests, allZones, allOutputs, tasks,
                   loopVars>>

CoreUnpairedKeepsCache ==
    /\ CanCall
    /\ client' = [client EXCEPT !.isAuthorized = FALSE]
    /\ transportService' = FALSE
    /\ allZones' = << >>
    /\ allOutputs' = << >>
    /\ imageService' = FALSE
    /\ stdout' = << StatusMessage("disconnected", "Disconnected from Roon Core"),
                    NowPlayingMessage("", "", "", "stopped", undefined, undefined) >>
    /\ turn' = [Turn("unpaired", << >>, allZones # << >> \/ allOutputs # << >>, TRUE, << >>)
                   EXCEPT !.cached = cache # << >>]
    /\ UNCHANGED <<now, cache, last, history, fetches, requests, tasks, subscriptions, loopVars>>

\* core_unpaired: handleCoreUnpaired (client.ts 62-65, 101-115), with
\* clearTransportService (transport.ts 98-103) and clearImageService
\* (image.ts 119-123); the subscriptions are not ended.
CoreUnpaired ==
    /\ CanCall
    /\ client' = [client EXCEPT !.isAuthorized = FALSE]
    /\ transportService' = FALSE
    /\ allZones' = << >>
    /\ allOutputs' = << >>
    /\ imageService' = FALSE
    /\ cache' = LRUClear(cache)
    /\ stdout' = << StatusMessage("disconnected", "Disconnected from Roon Core"),
                    NowPlayingMessage("", "", "", "stopped", undefined, undefined) >>
    /\ turn' = [Turn("unpaired", << >>, allZones # << >> \/ allOutputs # << >>, TRUE, << >>)
                   EXCEPT !.cached = cache # << >>]
    /\ UNCHANGED <<now, last, history, fetches, requests, tasks, subscriptions, loopVars>>

\* stop() (client.ts 217-233): both services are cleared, with the maps and
\* the cache; nothing is written to stdout and isAuthorized stays.
Stop ==
    /\ CanCall
    /\ transportService' = FALSE
    /\ allZones' = << >>
    /\ allOutputs' = << >>
    /\ imageService' = FALSE
    /\ cache' = LRUClear(cache)
    /\ stdout' = << >>
    /\ turn' = [Turn("stop", << >>, allZones # << >> \/ allOutputs # << >>, TRUE, << >>)
                   EXCEPT !.cached = cache # << >>]
    /\ UNCHANGED <<now, last, history, fetches, requests, tasks, subscriptions, loopVars, client>>

\* What ws_connect or start_discovery throws: nothing, an Error with a
\* message, or a value that is no Error, with its String().
NotThrown == << >>

Thrown(isError, text) == << [isError |-> isError, text |-> text] >>

Throws == {NotThrown, Thrown(TRUE, "connect ECONNREFUSED"), Thrown(FALSE, "refused")}

\* start() (client.ts 148-199) when ROON_HOST is host; the host is connected
\* to when the variable is set and not empty (156), and discovery is started
\* otherwise.  err is what ws_connect or start_discovery throws.  connected tells that a connection was opened,
\* whose onclose the collaborator holds.
StartCall(host, err) ==
    LET manual == IsSome(host) /\ host[1] # ""
        status == IF manual
                  THEN StatusMessage("discovering", "Connecting to " \o host[1] \o "...")
                  ELSE StatusMessage("discovering", "Searching for Roon Core...")
        inner  == IF manual
                  THEN << ErrorMessage("Failed to connect to Roon Core: " \o err[1].text) >>
                  ELSE << >>
        outer  == ErrorMessage(IF err[1].isError THEN err[1].text
                               ELSE "Failed to start Roon client")
    IN IF IsSome(err)
       THEN [written |-> << status >> \o inner \o << outer >>, thrown |-> TRUE,
             connected |-> FALSE]
       ELSE [written |-> << status >>, thrown |-> FALSE, connected |-> manual]

\* start() is called by the program's main.
Start(err) ==
    \E h \in {StartCall(client.host, err)} :
    /\ CanCall
    /\ h.connected => client.connections + Len(client.reconnects) < MaxConnections
    /\ client' = [client EXCEPT !.connections = IF h.connected THEN @ + 1 ELSE @]
    /\ stdout' = h.written
    /\ turn' = [Turn("start", << >>, FALSE, TRUE, << >>) EXCEPT !.thrown = h.thrown]
    /\ UNCHANGED <<now, cache, last, history, imageVars, transportService, allZones,
                   allOutputs, tasks, subscriptions, loopVars>>

\* The onclose callback given to ws_connect is called (client.ts 165-174):
\* the reconnect timer is set.
ConnectionClosed ==
    /\ CanCall
    /\ client.connections > 0
    /\ client' = [client EXCEPT !.connections = @ - 1, !.reconnects = Append(@, now)]
    /\ stdout' = << StatusMessage("disconnected", "Connection to Roon Core lost") >>
    /\ turn' = Turn("closed", << >>, FALSE, TRUE, << >>)
    /\ UNCHANGED <<now, cache, last, history, imageVars, transportService, allZones,
                   allOutputs, tasks, subscriptions, loopVars>>

\* The reconnect timer that was set first fires, RECONNECT_DELAY_MS after it
\* was set or later (client.ts 170-173), in a turn of its own: start() is
\* called again.
Reconnect(err) ==
    \E h \in {StartCall(client.host, err)} :
    /\ Idle
    /\ client.reconnects # << >>
    /\ now' = IF now < Head(client.reconnects) + RECONNECT_DELAY_MS
              THEN Head(client.reconnects) + RECONNECT_DELAY_MS ELSE now
    /\ now' <= MaxReconnects * RECONNECT_DELAY_MS
    /\ client' = [client EXCEPT !.reconnects = Tail(@),
                                !.connections = IF h.connected THEN @ + 1 ELSE @]
    /\ stdout' = h.written
    /\ turn' = [Turn("start", << >>, FALSE, TRUE, << >>) EXCEPT !.thrown = h.thrown]
    /\ UNCHANGED <<cache, last, history, imageVars, transportService, allZones,
                   allOutputs, tasks, subscriptions, loopVars>>

\* The answers of the image collaborator to a zone burst's request.
TaskResponses == {resp \in Responses : resp.error \/ resp.contentType = "image/png"}

Init ==
    /\ now = 0
    /\ cache = << >>
    /\ last = NoOp
    /\ history = << >>
    /\ imageService = FALSE
    /\ fetches = << >>
    /\ requests = 0
    /\ TransportInit

\* A core that offers both services, and one with an empty name that offers
\* no image service.
PairedCores == {Core("Nucleus", TRUE, "ok", TRUE), Core("", TRUE, "ok", FALSE)}

\* A core pairs and sends zone bursts and output bursts of every shape, and
\* its image service answers the requests it gets, or not; every call
\* arrives in a turn of its own, and no request is answered after its
\* deadline.
Next ==
    \/ Idle /\ \E core \in PairedCores : CorePaired(core)
    \/ Idle /\ \E data \in ZoneBursts : ZonesUpdate(data)
    \/ Idle /\ \E data \in OutputBursts : OutputsUpdate(data)
    \/ Idle /\ \E id \in TaskIds, resp \in TaskResponses : TaskImageResponse(id, resp)
    \/ \E id \in TaskIds : TaskImageTimeout(id)
    \/ ResumeTaskFetchArtwork
    \/ ResumeExtract
    \/ ResumeLoop

Spec == Init /\ [][Next]_vars

(***************************************************************************)
(* The reconciler on its own: zone bursts and output bursts of every shape *)
(* in any order, after pairing with a core that offers no image service.   *)
(* Each burst is kept on record with the maps it found.                    *)
(***************************************************************************)
OutputWithState(output_id, display_name, state) ==
    [output_id |-> output_id, display_name |-> display_name, state |-> state]

O1Playing == OutputWithState("o1", "Speaker", "playing")

O2Standby == OutputWithState("o2", "Headphones", "standby")

\* A zone that is loading a track: it has a now_playing and does not play yet.
Z2Loading ==
    Zone("z2", "Kitchen", << "o2" >>, "loading",
         Some(ThreeLine("img1", "Song", "Artist", "Album")))

BurstZoneLists ==
    {None, Some(<< >>), Some(<< Z2Loading >>)} \cup {Some(list) : list \in ZoneLists}

BurstRemovedZones == {None, Some(<< "z1" >>), Some(<< "z2", "z1" >>)}

AllZoneBursts ==
    {ZonesData(Some(<< Z1Playing, Z2Paused >>), None, None, None)}
    \cup {ZonesData(None, changed, removed, seek) :
             changed \in BurstZoneLists, removed \in BurstRemovedZones, seek \in SeekLists}

BurstOutputLists == {None, Some(<< O1Playing >>), Some(<< O1, O2Standby >>)}

BurstRemovedOutputs == {None, Some(<< "o1" >>), Some(<< "o2" >>)}

AllOutputBursts ==
    {OutputsData(Some(<< O1, O2Standby >>), None, None)}
    \cup {OutputsData(None, changed, removed) :
             changed \in BurstOutputLists, removed \in BurstRemovedOutputs}

\* A burst on record: its payload, and the zone map and the output map as
\* they were when it arrived.
Burst(op, data, zones, outputs) ==
    [op |-> op, data |-> data, zones |-> zones, outputs |-> outputs]

ZonesBurst(data) == ZonesUpdateNoting(data, Burst("zonesBurst", data, allZones, allOutputs))

OutputsBurst(data) == OutputsUpdateNoting(data, Burst("outputsBurst", data, allZones, allOutputs))

BurstInit ==
    /\ now = 0
    /\ cache = << >>
    /\ last = NoOp
    /\ history = << >>
    /\ imageService = FALSE
    /\ fetches = << >>
    /\ requests = 0
    /\ transportService = TRUE
    /\ allZones = << >>
    /\ allOutputs = << >>
    /\ tasks = << >>
    /\ stdout = << >>
    /\ turn = NoTurn
    /\ subscriptions = Subscriptions(TRUE, TRUE)
    /\ microtasks = << >>
    /\ draining = FALSE
    /\ client = Client(None, TRUE, 0, << >>)

BurstNext ==
    \/ Idle /\ \E data \in AllZoneBursts : ZonesBurst(data)
    \/ Idle /\ \E data \in AllOutputBursts : OutputsBurst(data)
    \/ ResumeExtract
    \/ ResumeLoop

SpecBurst == BurstInit /\ [][BurstNext]_vars

(***************************************************************************)
(* The two subscriptions on their own: every kind of notification, with    *)
(* and without a payload, in any order, after pairing with a core whose    *)
(* image service has answered one request for img1.  Each notification is  *)
(* kept on record with the maps and the cache it found.                    *)
(***************************************************************************)
SubscriptionResponses == Bursts \cup TransportErrors \cup {"Unsubscribed"}

ZonePayloads == {None} \cup {Some(data) : data \in ZoneBursts}

OutputPayloads == {None} \cup {Some(data) : data \in OutputBursts}

\* A notification on record.
Notice(op, response, payload, zones, outputs, c) ==
    [op |-> op, response |-> response, payload |-> payload,
     zones |-> zones, outputs |-> outputs, cache |-> c]

ZonesNotice(response, payload) ==
    ZonesNotified(response, payload,
                  Notice("zonesNotice", response, payload, allZones, allOutputs, cache))

OutputsNotice(response, payload) ==
    OutputsNotified(response, payload,
                    Notice("outputsNotice", response, payload, allZones, allOutputs, cache))

\* The fetch of img1 that the image service has answered.
AnsweredFetch ==
    OnImageResponse(NewFetch(1, "img1", 1, 0),
                    [error |-> FALSE, contentType |-> "image/png", hasBody |-> TRUE,
                     body |-> << 77, 97 >>])

SubscriptionInit ==
    /\ now = 0
    /\ cache = FetchArtworkResume(<< >>, AnsweredFetch, 0).cache
    /\ last = NoOp
    /\ history = << >>
    /\ imageService = TRUE
    /\ fetches = << AnsweredFetch >>
    /\ requests = 1
    /\ transportService = TRUE
    /\ allZones = << >>
    /\ allOutputs = << >>
    /\ tasks = << >>
    /\ stdout = << >>
    /\ turn = NoTurn
    /\ subscriptions = Subscriptions(TRUE, TRUE)
    /\ microtasks = << >>
    /\ draining = FALSE
    /\ client = Client(None, TRUE, 0, << >>)

SubscriptionNext ==
    \/ Idle /\ \E response \in SubscriptionResponses, payload \in ZonePayloads :
                  ZonesNotice(response, payload)
    \/ Idle /\ \E response \in SubscriptionResponses, payload \in OutputPayloads :
                  OutputsNotice(response, payload)
    \/ ResumeExtract
    \/ ResumeLoop

SpecSubscription == SubscriptionInit /\ [][SubscriptionNext]_vars

(***************************************************************************)
(* The output module on its own: emitNowPlaying, emitZoneList, emitStatus  *)
(* and emitError called in any order with values of every kind.  A value   *)
(* is a string, undefined, or one that JSON.stringify cannot serialize: a  *)
(* BigInt (a TypeError is thrown) or an object whose toJSON throws a value *)
(* that is not an Error.  stdout holds the lines console.log has written;  *)
(* the calls of console.error, those of debug, info, warn and error        *)
(* included, are kept on record with the arguments they pass.  A text is a *)
(* string of printable characters, line feeds, carriage returns, tabs and  *)
(* form feeds.                                                             *)
(***************************************************************************)
MaxEmits == 3

bigint == "<bigint>"

thrower == "<toJSON throws>"

Unserializable == {bigint, thrower}

\* The message of the error JSON.stringify throws for value v, as emit's
\* catch reads it (part_000 105-106).
DiagnosticOf(v) ==
    IF v = bigint THEN "Do not know how to serialize a BigInt"
    ELSE "Unknown error in JSON serialization"

RECURSIVE Join(_, _)
Join(texts, sep) ==
    IF Len(texts) = 0 THEN ""
    ELSE IF Len(texts) = 1 THEN texts[1]
    ELSE texts[1] \o sep \o Join(Tail(texts), sep)

\* What JSON.stringify writes for one character of a string: the quotation
\* mark, the reverse solidus and the control characters are escaped.
EscapeChar(c) ==
    CASE c = "\"" -> "\\\""
      [] c = "\\" -> "\\\\"
      [] c = "\n" -> "\\n"
      [] c = "\r" -> "\\r"
      [] c = "\t" -> "\\t"
      [] c = "\f" -> "\\f"
      [] OTHER    -> c

RECURSIVE Escape(_)
Escape(text) ==
    IF Len(text) = 0 THEN ""
    ELSE EscapeChar(SubSeq(text, 1, 1)) \o Escape(SubSeq(text, 2, Len(text)))

\* JSON.stringify of a string.
Quote(text) == "\"" \o Escape(text) \o "\""

\* One member of an object: left out when the value is undefined, the
\* literal null when it is null.
Member(name, v) ==
    IF v = undefined THEN << >>
    ELSE IF v = null THEN << Quote(name) \o ":null" >>
    ELSE << Quote(name) \o ":" \o Quote(v) >>

RawMember(name, text) == << Quote(name) \o ":" \o text >>

Object(members) == "{" \o Join(members, ",") \o "}"

\* ZoneInfo.now_playing.artwork (part_000 68-73): undefined when the entry's
\* now_playing has no such member, as in the entries emitCurrentZoneList
\* builds.
ArtworkOf(nowPlaying) ==
    IF "artwork" \in DOMAIN nowPlaying THEN nowPlaying.artwork ELSE undefined

\* JSON.stringify of one entry of a zone list (part_000 64-74).
StringifyZoneInfo(z) ==
    Object(Member("zone_id", z.zone_id)
           \o Member("display_name", z.display_name)
           \o Member("state", z.state)
           \o (IF IsSome(z.now_playing)
               THEN RawMember("now_playing",
                              Object(Member("title", z.now_playing[1].title)
                                     \o Member("artist", z.now_playing[1].artist)
                                     \o Member("album", z.now_playing[1].album)
                                     \o Member("artwork", ArtworkOf(z.now_playing[1]))))
               ELSE << >>))

\* JSON.stringify of a message whose values can all be serialized.
Stringify(data) ==
    CASE data.type = "now_playing" ->
            Object(Member("type", data.type) \o Member("zone_id", data.zone_id)
                   \o Member("title", data.title) \o Member("artist", data.artist)
                   \o Member("album", data.album) \o Member("state", data.state)
                   \o Member("artwork", data.artwork))
      [] data.type = "zone_list" ->
            Object(Member("type", data.type)
                   \o RawMember("zones",
                        "[" \o Join([i \in 1..Len(data.zones) |->
                                        StringifyZoneInfo(data.zones[i])], ",") \o "]"))
      [] data.type = "status" ->
            Object(Member("type", data.type) \o Member("state", data.state)
                   \o Member("message", data.message))
      [] OTHER ->
            Object(Member("type", data.type) \o Member("message", data.message))

\* The values of one entry of a zone list that JSON.stringify visits.
ZoneInfoValues(z) ==
    << z.zone_id, z.display_name, z.state >>
    \o (IF IsSome(z.now_playing)
        THEN << z.now_playing[1].title, z.now_playing[1].artist, z.now_playing[1].album,
                ArtworkOf(z.now_playing[1]) >>
        ELSE << >>)

RECURSIVE ZoneListValues(_)
ZoneListValues(zones) ==
    IF Len(zones) = 0 THEN << >>
    ELSE ZoneInfoValues(zones[1]) \o ZoneListValues(Tail(zones))

\* The values of a message that JSON.stringify visits, in its order.
ValuesOf(data) ==
    CASE data.type = "now_playing" ->
            << data.zone_id, data.title, data.artist, data.album, data.state, data.artwork >>
      [] data.type = "zone_list" -> ZoneListValues(data.zones)
      [] data.type = "status" -> << data.state, data.message >>
      [] OTHER -> << data.message >>

Unserializables(data) == SelectSeq(ValuesOf(data), LAMBDA v : v \in Unserializable)

\* output.emitZoneList's message (part_000 136-141)
ZoneListMessage(zones) == [type |-> "zone_list", zones |-> zones]

\* A call of console.error, the writer of stderr, with the arguments it is
\* given: a text first, then values of any kind.
ConsoleError(first, rest) == [first |-> first, rest |-> rest]

\* emit (part_000 98-109): console.log writes the line to stdout; when
\* JSON.stringify throws, console.error is given the fallback line, for
\* stderr.
Emit(data) ==
    IF Len(Unserializables(data)) = 0
    THEN [stdout |-> << Stringify(data) \o "\n" >>, stderr |-> << >>]
    ELSE [stdout |-> << >>,
          stderr |-> << ConsoleError(
                           Stringify(ErrorMessage(DiagnosticOf(Unserializables(data)[1]))),
                           << >>) >>]

\* The calls of emit made so far, the calls of console.error so far, the
\* number of calls of debug, info, warn and error so far, and about the last
\* call: stdout as it was before, and whether it was an emit whose message
\* could not be serialized.
EmitLog(calls, stderr, logs, before, failed) ==
    [op |-> "emit", calls |-> calls, stderr |-> stderr, logs |-> logs,
     before |-> before, failed |-> failed]

EmitCall(data) ==
    \E e \in {Emit(data)} :
    /\ Len(last.calls) + last.logs < MaxEmits
    /\ stdout' = stdout \o e.stdout
    /\ last' = EmitLog(Append(last.calls, data), last.stderr \o e.stderr, last.logs,
                       stdout, Len(Unserializables(data)) > 0)
    /\ UNCHANGED <<now, cache, history, imageVars, transportService, allZones, allOutputs,
                   tasks, turn, subscriptions, loopVars, client>>

\* emitNowPlaying (part_000 114-131)
EmitNowPlaying(zone_id, title, artist, album, state, artwork) ==
    EmitCall(NowPlayingMessage(zone_id, title, artist, album, state, artwork))

\* emitZoneList (part_000 136-141)
EmitZoneList(zones) == EmitCall(ZoneListMessage(zones))

\* emitStatus (part_000 146-152)
EmitStatus(state, message) == EmitCall(StatusMessage(state, message))

\* emitError (part_000 157-162)
EmitError(message) == EmitCall(ErrorMessage(message))

\* debug, info, warn and error (part_000 167-190): console.error is given
\* the text `tag message` and then the further arguments, as they are; stdout
\* is not written.
Log(tag, message, args) ==
    /\ Len(last.calls) + last.logs < MaxEmits
    /\ last' = EmitLog(last.calls,
                       Append(last.stderr, ConsoleError(tag \o " " \o message, args)),
                       last.logs + 1, stdout, FALSE)
    /\ UNCHANGED <<now, cache, history, imageVars, transportService, allZones, allOutputs,
                   tasks, stdout, turn, subscriptions, loopVars, client>>

\* debug (part_000 167-169)
Debug(message, args) == Log("[DEBUG]", message, args)

\* info (part_000 174-176)
Info(message, args) == Log("[INFO]", message, args)

\* warn (part_000 181-183)
Warn(message, args) == Log("[WARN]", message, args)

\* error (part_000 188-190)
Error(message, args) == Log("[ERROR]", message, args)

Titles == {"Song", "\"Heroes\"", bigint}

Artworks == {undefined, DataUrl("image/png", << 77, 97 >>)}

\* An entry of a zone list whose now_playing carries artwork.
ZoneInfoWithArtwork(artwork) ==
    [zone_id |-> "z2", display_name |-> "Kitchen", state |-> "paused",
     now_playing |-> Some([title |-> "Tune", artist |-> "Band", album |-> "Disc",
                           artwork |-> artwork])]

EmittedZoneLists ==
    {ZoneList(<< Z1Playing, Z2Loading >>, << >>), ZoneList(<< >>, << O1 >>),
     << [zone_id |-> "z1", display_name |-> "Den \\ 1", state |-> bigint,
         now_playing |-> None] >>,
     << ZoneInfoWithArtwork(DataUrl("image/png", << 77, 97 >>)) >>,
     ZoneList(<< Z1Playing >>, << >>) \o << ZoneInfoWithArtwork(thrower) >>}

StatusTexts == {undefined, null, "Connected to Core", bigint}

\* An Error object given to a logging function.
anError == "<Error: Image fetch timeout>"

LogArguments == {<< >>, << "timeout" >>, << anError >>}

ErrorTexts == {"Failed to subscribe to zones", "connect ECONNREFUSED\nat 10.0.0.2", thrower}

EmitInit ==
    /\ now = 0
    /\ cache = << >>
    /\ last = EmitLog(<< >>, << >>, 0, << >>, FALSE)
    /\ history = << >>
    /\ imageService = FALSE
    /\ fetches = << >>
    /\ requests = 0
    /\ TransportInit

EmitNext ==
    \/ \E title \in Titles, artwork \in Artworks :
          EmitNowPlaying("z1", title, "Artist", "Album", "playing", artwork)
    \/ \E zones \in EmittedZoneLists : EmitZoneList(zones)
    \/ \E message \in StatusTexts : EmitStatus("connected", message)
    \/ \E message \in ErrorTexts : EmitError(message)
    \/ Debug("Image service cleared", << >>)
    \/ Info("Core paired", << >>)
    \/ Warn("Output subscription error: NetworkError", << >>)
    \/ \E args \in LogArguments : Error("Failed to fetch artwork:", args)

SpecEmit == EmitInit /\ [][EmitNext]_vars

(***************************************************************************)
(* The two pure functions of the reconciler on their own: a zone state and *)
(* a now_playing record of any shape are given, and each function is       *)
(* applied to them.                                                        *)
(***************************************************************************)
\* zone.state as the core may send it; undefined when the field is missing.
RoonStates ==
    {"playing", "paused", "loading", "stopped", "buffering", "PLAYING", "",
     undefined, null}

ThreeLines ==
    {None, Some(Lines("Song3", "Artist3", "Album3")), Some(Lines("", undefined, ""))}

TwoLines ==
    {None, Some([line1 |-> "Song2", line2 |-> "Artist2"]),
     Some([line1 |-> "Song2", line2 |-> undefined])}

OneLines == {None, Some([line1 |-> "Song1"])}

NowPlayingShapes ==
    {[image_key |-> undefined, three_line |-> three, two_line |-> two, one_line |-> one] :
        three \in ThreeLines, two \in TwoLines, one \in OneLines}

\* What a function was given, and what it returned.
Given(state, nowPlaying) ==
    [op |-> "given", state |-> state, nowPlaying |-> nowPlaying, result |-> << >>]

\* mapRoonStateToPlaybackState applied to the state as it is, and to
\* `zone.state || 'stopped'` as its callers pass it (transport.ts 122, 383).
Normalize ==
    /\ last.op = "given"
    /\ last' = [last EXCEPT
                  !.op = "normalize",
                  !.result = << MapRoonStateToPlaybackState(last.state),
                                MapRoonStateToPlaybackState(
                                    StateOrStopped([state |-> last.state])) >>]
    /\ UNCHANGED <<now, cache, history, imageVars, transportVars>>

\* extractMetadata applied to the now_playing record.
Extract ==
    /\ last.op = "given"
    /\ last' = [last EXCEPT !.op = "extract",
                            !.result = << ExtractMetadata(last.nowPlaying) >>]
    /\ UNCHANGED <<now, cache, history, imageVars, transportVars>>

PureInit ==
    /\ now = 0
    /\ cache = << >>
    /\ last \in {Given(state, nowPlaying) :
                    state \in RoonStates, nowPlaying \in NowPlayingShapes}
    /\ history = << >>
    /\ imageService = FALSE
    /\ fetches = << >>
    /\ requests = 0
    /\ TransportInit

PureNext == Normalize \/ Extract

SpecPure == PureInit /\ [][PureNext]_vars

(***************************************************************************)
(* Sessions: the core pairs, offering both services, and is lost again, or *)
(* the client is stopped, while zone bursts wait for artwork and output    *)
(* bursts arrive.  What a session has begun goes on after the pairing is   *)
(* lost: the subscriptions still call back, the collaborator may still     *)
(* answer a request, before its deadline or after it, and a deadline timer *)
(* still fires.  Every call arrives in a turn of its own.                  *)
(***************************************************************************)
SessionZoneBursts ==
    {ZonesData(None, Some(list), None, None) :
        list \in {<< Z1Playing, Z2Paused >>, << Z2Bare >>, << Z1Stopped >>}}

SessionNext ==
    \/ Idle /\ CorePaired(Core("Nucleus", TRUE, "ok", TRUE))
    \/ Idle /\ CoreUnpaired
    \/ Idle /\ Stop
    \/ Idle /\ \E data \in SessionZoneBursts : ZonesUpdate(data)
    \/ Idle /\ \E data \in OutputBursts : OutputsUpdate(data)
    \/ Idle /\ \E id \in TaskFetchIds, resp \in TaskResponses : TaskImageResponse(id, resp)
    \/ \E id \in TaskFetchIds : TaskImageTimeout(id)
    \/ ResumeTaskFetchArtwork
    \/ ResumeExtract
    \/ ResumeLoop

SpecSession == Init /\ [][SessionNext]_vars

(***************************************************************************)
(* Turns: the calls of a turn of the event loop arrive one after the       *)
(* other and the continuations they leave run when the last has returned.  *)
(* A core that offers both services has paired; zone bursts arrive and the *)
(* image service answers.                                                  *)
(***************************************************************************)
Z2Tune ==
    Zone("z2", "Kitchen", << "o2" >>, "playing", Some(ThreeLine("img2", "Tune", "Band", "Disc")))

TurnZoneBursts ==
    {ZonesData(None, Some(list), None, None) :
        list \in {<< Z1Playing, Z2Paused >>, << Z2Bare, Z1Playing >>, << Z2Tune >>}}

TurnInit ==
    /\ now = 0
    /\ cache = << >>
    /\ last = NoOp
    /\ history = << >>
    /\ imageService = TRUE
    /\ fetches = << >>
    /\ requests = 0
    /\ transportService = TRUE
    /\ allZones = << >>
    /\ allOutputs = << >>
    /\ tasks = << >>
    /\ stdout = << >>
    /\ turn = NoTurn
    /\ subscriptions = Subscriptions(TRUE, TRUE)
    /\ microtasks = << >>
    /\ draining = FALSE
    /\ client = Client(None, TRUE, 0, << >>)

\* An answer with an image.
ImageAnswers == {resp \in Responses : ~resp.error /\ resp.contentType = "image/png" /\ resp.hasBody}

TurnNext ==
    \/ \E data \in TurnZoneBursts : ZonesUpdate(data)
    \/ \E id \in TaskIds, resp \in ImageAnswers : TaskImageResponse(id, resp)
    \/ ResumeTaskFetchArtwork
    \/ ResumeExtract
    \/ ResumeLoop

SpecTurn == TurnInit /\ [][TurnNext]_vars

(***************************************************************************)
(* The client: start() is called, with ROON_HOST set or not; connections   *)
(* open, close and are reopened; cores of every shape pair and are lost;   *)
(* the client is stopped; the subscriptions that a core's transport service *)
(* has taken call back with a zone and with an output.                     *)
(***************************************************************************)
\* The cores that pair: one that offers both services, one with an empty
\* name and no image service, one without services, one whose transport
\* service refuses the zone subscription and one whose refuses the output
\* subscription, and one without a name that offers the image service only.
Cores ==
    {Core("Nucleus", TRUE, "ok", TRUE),
     Core("", TRUE, "ok", FALSE),
     Core("Nucleus", FALSE, "none", FALSE),
     Core("Nucleus", TRUE, "zones", TRUE),
     Core("Nucleus", TRUE, "outputs", TRUE),
     Core(undefined, TRUE, "none", TRUE)}

\* ROON_HOST: not set, set to a host, or set to the empty string.
Hosts == {None, Some("10.0.0.2"), Some("")}

ClientInit ==
    /\ now = 0
    /\ cache = << >>
    /\ last = NoOp
    /\ history = << >>
    /\ imageService = FALSE
    /\ fetches = << >>
    /\ requests = 0
    /\ transportService = FALSE
    /\ allZones = << >>
    /\ allOutputs = << >>
    /\ tasks = << >>
    /\ stdout = << >>
    /\ turn = NoTurn
    /\ subscriptions = Subscriptions(FALSE, FALSE)
    /\ microtasks = << >>
    /\ draining = FALSE
    /\ client \in {Client(host, FALSE, 0, << >>) : host \in Hosts}

ClientNext ==
    \/ \E err \in Throws : Start(err)
    \/ ConnectionClosed
    \/ \E err \in Throws : Reconnect(err)
    \/ \E core \in Cores : CorePaired(core)
    \/ CoreUnpaired
    \/ Stop
    \/ ZonesUpdate(ZonesData(None, Some(<< Z1Stopped >>), None, None))
    \/ OutputsUpdate(OutputsData(None, Some(<< O1 >>), None))

SpecClient == ClientInit /\ [][ClientNext]_vars

(***************************************************************************)
(* Claims about the cache.                                                 *)
(***************************************************************************)
\* What the last get or has reported: TRUE when it found the key.
ReportedPresent ==
    IF last.op = "get" THEN last.result # undefined ELSE last.result = TRUE

\* The last call was a set of a key that was not resident, made with the
\* cache at capacity.
EvictingSet == last.op = "set" /\ ~last.had /\ last.size >= maxSize

\* C6: a set of a new key into a cache at capacity evicts exactly one entry,
\* the key whose most recent get hit or set is the oldest; the key used most
\* recently before the set (for example one just read with get) is not evicted.
C6_EvictsLeastRecentlyUsed ==
    EvictingSet =>
        /\ last.removed = {last.lru}
        /\ Len(cache) = last.size
        /\ (last.size > 1 => last.mru \notin last.removed)

\* C6 witness: img1, the oldest key of the full cache, was read with get, so a
\* set of a new key evicted the next oldest key and img1 stayed.
C6_Witness ==
    /\ EvictingSet
    /\ last.lru = FillKey(1)
    /\ last.removed = {FillKey(1)}
    /\ "img1" \in Keys(cache)

\* C7: the cache never holds more than MAX_CACHE_SIZE (100) entries.
C7_SizeAtMostCapacity == LRUSize(cache) <= MAX_CACHE_SIZE

\* C7 witness: a new key was set into a cache that already held 100 entries.
C7_Witness == EvictingSet /\ last.size = MAX_CACHE_SIZE /\ LRUSize(cache) = MAX_CACHE_SIZE

\* C8: a resident entry last set at time T is reported present by get and has
\* at any time up to T + TTL and absent at any later time.
C8_TtlBoundary ==
    (last.op \in {"get", "has"} /\ last.had) =>
        (ReportedPresent <=> last.time <= last.setAt + CACHE_TTL_MS)

\* C8 witness: an entry set at time 1 was read with get at exactly 1 + TTL and
\* reported present.
C8_Witness ==
    /\ last.op = "get"
    /\ last.had
    /\ last.setAt = 1
    /\ last.time = 1 + CACHE_TTL_MS
    /\ ReportedPresent

\* C8, second witness state: has at T + TTL + 1 reports the entry absent.
C8_WitnessExpired ==
    /\ last.op = "has"
    /\ last.had
    /\ last.time = last.setAt + CACHE_TTL_MS + 1
    /\ ~ReportedPresent

\* The last call was a get that returned a value.
GetHit == last.op = "get" /\ last.result # undefined

\* C9 as stated: every get hit makes the entry the most recently used one and
\* resets its timestamp to the time of the hit.
C9_HitResetsTimestamp ==
    GetHit =>
        /\ cache[Len(cache)].key = last.key
        /\ cache[Len(cache)].timestamp = last.time

\* C9 amended: every get hit makes the entry the most recently used one and
\* leaves its timestamp at the time of its last set, so the TTL is still
\* measured from that set.
C9_HitMovesKeepsTimestamp ==
    GetHit =>
        /\ cache[Len(cache)].key = last.key
        /\ cache[Len(cache)].timestamp = last.setAt
        /\ cache[Len(cache)].value = last.result

\* C9 witness: a get hit at a time later than the entry's last set.
C9_Witness == GetHit /\ last.time > last.setAt /\ last.setAt >= 0

(***************************************************************************)
(* Claims about the image manager.                                         *)
(***************************************************************************)
\* C5: a get_image callback that runs after the fetch's deadline timer has
\* fired is discarded: it leaves the cache as it was, and the fetch, already
\* rejected by the timer, is not resolved or rejected a second time.
C5_LateResponseDiscarded ==
    last.op = "lateResponse" =>
        /\ ~last.changed
        /\ last.fetch.settles = 1
        /\ last.fetch.promise = "rejected"

\* C5 witness: the timer of a fetch fired and its callback was called afterwards.
C5_Witness ==
    /\ last.op = "lateResponse"
    /\ last.fetch.timer = "fired"
    /\ last.fetch.answered

\* The last call was a fetchArtwork of a key that an earlier fetch had stored
\* and that was neither evicted nor cleared since, made within the TTL of
\* that earlier fetch's success.
RefetchWithinTtl ==
    /\ last.op = "fetchArtwork"
    /\ last.setAt >= 0
    /\ last.time <= last.setAt + CACHE_TTL_MS

\* C10: after a fetch of key k has succeeded, a later fetch of k within the TTL,
\* with no eviction of k and no clear in between, resolves to the same data URL
\* and sends no request to the image collaborator.
C10_RefetchServedFromCache ==
    RefetchWithinTtl =>
        /\ last.result = last.stored
        /\ last.result \notin Falsy
        /\ last.fetch = NoFetch

\* C10 witness: a key fetched successfully was fetched again some time later,
\* within the TTL.
C10_Witness ==
    /\ RefetchWithinTtl
    /\ last.time > last.setAt
    /\ last.result = last.stored

\* The last call was a fetchArtwork of a non-empty key that cache.get did not
\* find: the key was not resident, or its entry was older than the TTL.
FetchMissed ==
    /\ last.op = "fetchArtwork"
    /\ last.key \notin Falsy
    /\ ~last.had \/ last.time - last.setAt > CACHE_TTL_MS

\* The last call sent exactly one get_image request, for its key.
OneRequestSent ==
    /\ last.fetch # NoFetch
    /\ last.fetch.key = last.key
    /\ last.fetch.id = requests
    /\ Cardinality({i \in 1..Len(fetches) : fetches[i].id = requests}) = 1
    /\ fetches[Len(fetches)] = last.fetch

\* C11 as stated: every fetchArtwork call with a non-empty key that misses the
\* cache sends exactly one request to the image collaborator.
C11_MissSendsOneRequest == FetchMissed => OneRequestSent

\* C11 amended: a fetchArtwork call with a non-empty key that misses the cache
\* sends exactly one request when an image service is set; when none is set
\* it sends no request and resolves to undefined.
C11_MissSendsOneRequestIfService ==
    FetchMissed =>
        IF imageService THEN OneRequestSent
        ELSE /\ last.fetch = NoFetch
             /\ last.result = undefined
             /\ \A i \in 1..Len(fetches) : fetches[i].id # requests + 1

\* C11 witness: a fetchArtwork call missed the cache while an image service
\* was set, and its request is in flight.
C11_Witness ==
    /\ FetchMissed
    /\ imageService
    /\ last.fetch.promise = "pending"
    /\ last.fetch.id = requests

\* C12: when the image collaborator answers a fetch with an error before the
\* deadline, the fetch resolves to undefined and the cache is left exactly
\* as it was before the answer.
C12_ErrorLeavesCache ==
    last.op = "errorResponse" =>
        /\ last.result = undefined
        /\ last.fetch.promise = "rejected"
        /\ last.fetch.settles = 1
        /\ ~last.changed
        /\ Len(cache) = last.size

\* C12 witness: the collaborator answered a fetch with an error before the
\* deadline, while the cache held an entry.
C12_Witness ==
    /\ last.op = "errorResponse"
    /\ last.fetch.timer = "cleared"
    /\ last.size > 0

\* C15: a fetchArtwork call with an undefined, null or empty key resolves to
\* undefined, sends no request and leaves the cache as it was.
C15_EmptyKeyNoRequest ==
    last.op = "fetchArtwork" /\ last.key \in Falsy =>
        /\ last.result = undefined
        /\ last.fetch = NoFetch
        /\ ~last.changed
        /\ \A i \in 1..Len(fetches) : fetches[i].key \notin Falsy

\* C15 witness: fetchArtwork was called with an empty key while an image
\* service was set and the cache held an entry.
C15_Witness ==
    /\ last.op = "fetchArtwork"
    /\ last.key \in Falsy
    /\ imageService
    /\ last.size > 0

\* The promise of fetch id is pending.
Pending(id) == \E i \in 1..Len(fetches) : fetches[i].id = id /\ fetches[i].promise = "pending"

\* The last turn settled the promise of fetch id.
JustSettled(id) ==
    /\ last.op \in {"response", "errorResponse", "timeout"}
    /\ last.fetch.id = id
    /\ last.fetch.promise \in {"fulfilled", "rejected"}
    /\ last.fetch.settles = 1

\* C14: every fetch settles: a pending fetch is in the end resolved or
\* rejected, whether or not the image collaborator answers; a fetch that its
\* deadline timer settles resolves to undefined.
C14_EveryFetchSettles ==
    /\ [](last.op = "timeout" =>
            /\ last.result = undefined
            /\ last.fetch.promise = "rejected"
            /\ last.time >= last.fetch.startedAt + IMAGE_FETCH_TIMEOUT_MS)
    /\ \A id \in 1..MaxFetches : Pending(id) ~> JustSettled(id)

\* C14 witness: the deadline timer settled a fetch that the collaborator had
\* not answered.
C14_Witness ==
    /\ last.op = "timeout"
    /\ ~last.fetch.answered
    /\ last.fetch.timer = "fired"
    /\ last.result = undefined

(***************************************************************************)
(* Claims about the zone list and the now_playing messages.                *)
(***************************************************************************)
ZoneListsWritten == SelectSeq(stdout, LAMBDA m : m.type = "zone_list")

\* The ids a zone list must carry, given the zone map and the output map.
ReferencedOutputIds(zoneMap) ==
    UNION {{zoneMap[i].outputs[j].output_id : j \in 1..Len(zoneMap[i].outputs)} :
              i \in 1..Len(zoneMap)}

ExpectedIds(zoneMap, outputMap) ==
    {zoneMap[i].zone_id : i \in 1..Len(zoneMap)}
    \cup {"output:" \o outputMap[i].output_id :
             i \in {j \in 1..Len(outputMap) :
                       outputMap[j].output_id \notin ReferencedOutputIds(zoneMap)}}

\* C1: every zone_list message written carries exactly one entry per zone id
\* of the zone map it was built from, exactly one entry output:<output_id>
\* per output of the output map that no zone lists among its outputs, and no
\* other entry; the last zone_list a burst writes is built from the maps as
\* the burst leaves them.
C1_ZoneListMatchesMaps ==
    /\ \A n \in 1..Len(ZoneListsWritten) :
          LET m == ZoneListsWritten[n] IN
          /\ {m.zones[i].zone_id : i \in 1..Len(m.zones)} = ExpectedIds(m.zoneMap, m.outputMap)
          /\ \A id \in ExpectedIds(m.zoneMap, m.outputMap) :
                Cardinality({i \in 1..Len(m.zones) : m.zones[i].zone_id = id}) = 1
    /\ turn.kind \in {"zones", "outputs"} /\ Len(ZoneListsWritten) > 0 =>
          /\ ZoneListsWritten[Len(ZoneListsWritten)].zoneMap = allZones
          /\ ZoneListsWritten[Len(ZoneListsWritten)].outputMap = allOutputs

\* C1 witness: a zone list was written while the maps held a zone that lists
\* output o1, a zone that lists no output, and the output o1.
C1_Witness ==
    /\ Len(ZoneListsWritten) > 0
    /\ Len(allZones) = 2
    /\ Len(allOutputs) = 1
    /\ "o1" \in ReferencedOutputIds(allZones)
    /\ Len(ZoneListsWritten[1].zones) = 2

\* C1 witness: a zone list was written that carries a zone and, for an
\* output no zone lists, an entry output:o1.
C1_WitnessInactive ==
    /\ Len(ZoneListsWritten) > 0
    /\ \E i, j \in 1..Len(ZoneListsWritten[1].zones) :
          /\ ZoneListsWritten[1].zones[i].zone_id = "output:o1"
          /\ ZoneListsWritten[1].zones[j].zone_id \in ZoneIds

\* C2: a zone burst or an output burst that changes the zone map or the
\* output map writes exactly one zone_list message when the list it leaves is
\* not empty.
C2_OneZoneListPerMutation ==
    turn.kind \in {"zones", "outputs"} /\ turn.mutated
        /\ Len(ZoneList(allZones, allOutputs)) > 0
    => Len(ZoneListsWritten) = 1

\* The zones of a burst for which a now_playing message is owed.
OwedZones(list) == SelectSeq(list, LAMBDA z : z.state \in {"playing", "paused"})

\* A call of handleZonesUpdate that has not ended has written the now_playing
\* messages of the zones before the first of its queue, in the burst's order.
OnItsWay(call) ==
    /\ Len(call.nowPlaying) + Len(call.queue) = Len(OwedZones(call.zones))
    /\ \A i \in 1..Len(call.nowPlaying) :
          call.nowPlaying[i].zone_id = OwedZones(call.zones)[i].zone_id

\* C3: when the call of handleZonesUpdate for a zone burst has ended, it has
\* written a now_playing message for every zone of the burst whose state is
\* playing or paused, in the burst's order; a call that has not ended either
\* waits for a pending fetch whose deadline timer is armed, so that the fetch
\* settles, or has its continuation in the microtask queue, and it has
\* written the messages of the zones before the one it is at.
C3_NowPlayingForEveryPlayingZone ==
    /\ turn.kind \in {"zones", "resume"} /\ turn.done =>
          /\ Len(turn.nowPlaying) = Len(OwedZones(turn.zones))
          /\ \A i \in 1..Len(turn.nowPlaying) :
                turn.nowPlaying[i].zone_id = OwedZones(turn.zones)[i].zone_id
    /\ \A n \in 1..Len(tasks) :
          /\ tasks[n].fetch \in FetchIds
          /\ FetchById(tasks[n].fetch).promise = "pending"
          /\ FetchById(tasks[n].fetch).timer = "armed"
          /\ Len(tasks[n].queue) > 0
          /\ OnItsWay(tasks[n])
    /\ \A n \in 1..Len(microtasks) :
          /\ microtasks[n].call # NoCall
          /\ OnItsWay(microtasks[n].call)
          /\ microtasks[n].at \in {"fetchArtwork", "extract"} => Len(microtasks[n].call.queue) > 0
          /\ microtasks[n].at = "fetchArtwork" => microtasks[n].fetch.promise # "pending"

\* C3 witness: the call for a burst of two zones, one playing and one
\* paused, has ended in a continuation, with a now_playing message for each.
C3_Witness ==
    /\ turn.kind = "resume"
    /\ turn.done
    /\ Len(turn.zones) = 2
    /\ Len(turn.nowPlaying) = 2
    /\ turn.nowPlaying[1].zone_id = "z1"
    /\ turn.nowPlaying[2].zone_id = "z2"

\* C4: when the call of handleZonesUpdate for a zone burst has ended, it has
\* written, for every zone of the burst whose state is stopped or that has no
\* now_playing data, a now_playing message with empty title, artist and
\* album and state stopped.
C4_EmptyNowPlayingForStoppedZone ==
    turn.kind \in {"zones", "resume"} /\ turn.done =>
        \A i \in 1..Len(turn.zones) :
            turn.zones[i].state = "stopped" \/ ~IsSome(turn.zones[i].now_playing) =>
                \E j \in 1..Len(turn.nowPlaying) :
                    /\ turn.nowPlaying[j].zone_id = turn.zones[i].zone_id
                    /\ turn.nowPlaying[j].title = ""
                    /\ turn.nowPlaying[j].artist = ""
                    /\ turn.nowPlaying[j].album = ""
                    /\ turn.nowPlaying[j].state = "stopped"

\* C13: when the artwork fetch that a playing or paused zone waits for fails,
\* by an error of the collaborator or by the deadline, the zone's now_playing
\* message is written all the same, with the zone's title, artist, album and
\* state and with no artwork, and no error message is written.
C13_FailedFetchStillEmits ==
    turn.kind = "resume" /\ turn.settled \in {"error", "timeout"} =>
        /\ Len(stdout) > 0
        /\ stdout[1] =
              [type    |-> "now_playing",
               zone_id |-> turn.awaited[1].zone_id,
               title   |-> turn.awaited[1].now_playing[1].three_line[1].line1,
               artist  |-> turn.awaited[1].now_playing[1].three_line[1].line2,
               album   |-> turn.awaited[1].now_playing[1].three_line[1].line3,
               state   |-> turn.awaited[1].state,
               artwork |-> undefined]
        /\ \A i \in 1..Len(stdout) : stdout[i].type # "error"

\* C13 witness: the fetch for a paused zone ran into its deadline, and the
\* rest of extractAndEmitNowPlaying has run.
C13_Witness ==
    /\ turn.kind = "resume"
    /\ turn.settled = "timeout"
    /\ turn.awaited[1].state = "paused"
    /\ Len(stdout) > 0

\* C13 witness: the collaborator answered the fetch for a playing zone with
\* an error.
C13_WitnessError ==
    /\ turn.kind = "resume"
    /\ turn.settled = "error"
    /\ turn.awaited[1].state = "playing"
    /\ Len(stdout) > 0

(***************************************************************************)
(* Claims about single bursts.                                             *)
(***************************************************************************)
ZoneIdsOf(zones) == {zones[i].zone_id : i \in 1..Len(zones)}

\* The ids in a list that may be missing.
ListedIds(m) == IF IsSome(m) THEN {m[1][i] : i \in 1..Len(m[1])} ELSE {}

\* The zone ids a burst upserts.
UpsertedIds(data) ==
    (IF IsSome(data.zones) THEN ZoneIdsOf(data.zones[1]) ELSE {})
    \cup (IF IsSome(data.zones_changed) THEN ZoneIdsOf(data.zones_changed[1]) ELSE {})

\* C16: after a zone burst whose removed-id list holds z and which does not
\* upsert z, the zone map does not hold z and no zone_list written by the
\* burst holds z, whatever else the burst carries.
C16_RemovedZoneGone ==
    last.op = "zonesBurst" =>
        \A z \in ListedIds(last.data.zones_removed) \ UpsertedIds(last.data) :
            /\ z \notin ZoneIdsOf(allZones)
            /\ \A n \in 1..Len(ZoneListsWritten) :
                  z \notin ZoneIdsOf(ZoneListsWritten[n].zones)

\* C17: a zone burst whose removed ids are all missing from the zone map
\* runs to its end and loses no zone of the map: its call throws nothing, and
\* it ends before it returns when the burst has no playing or paused zone,
\* and in a continuation otherwise; when it upserts nothing, it leaves the
\* map exactly as it was.
C17_RemovingAbsentZone ==
    /\ last.op = "zonesBurst"
    /\ ListedIds(last.data.zones_removed) # {}
    /\ ListedIds(last.data.zones_removed) \cap ZoneIdsOf(last.zones) = {}
    => /\ ~turn.thrown
       /\ turn.done \/ microtasks # << >>
       /\ turn.kind = "zones"
             /\ PlayingZones(FirstList(last.data.zones, last.data.zones_changed)) = << >>
          => turn.done
       /\ ZoneIdsOf(last.zones) \subseteq ZoneIdsOf(allZones)
       /\ ZoneIdsOf(allZones) = ZoneIdsOf(last.zones) \cup UpsertedIds(last.data)
       /\ UpsertedIds(last.data) = {} =>
             /\ allZones = last.zones
             /\ Len(allZones) = Len(last.zones)

\* C17 witness: a burst that carried nothing but the removal of z1 arrived
\* while the zone map held another zone and not z1.
C17_Witness ==
    /\ last.op = "zonesBurst"
    /\ last.data = ZonesData(None, None, Some(<< "z1" >>), None)
    /\ ZoneIdsOf(last.zones) = {"z2"}
    /\ allZones = last.zones

\* The last burst was a zone burst that carried a seek-changed list and
\* nothing else.
SeekOnlyBurst ==
    /\ last.op = "zonesBurst"
    /\ ListedIds(last.data.zones_seek_changed) # {}
    /\ ~IsSome(last.data.zones)
    /\ ~IsSome(last.data.zones_changed)
    /\ ~IsSome(last.data.zones_removed)

\* C18: a zone burst that carries only a non-empty seek-changed list changes
\* neither the zone map nor the output map and writes no message.
C18_SeekOnlyChangesNothing ==
    SeekOnlyBurst =>
        /\ allZones = last.zones
        /\ allOutputs = last.outputs
        /\ stdout = << >>

\* C18 witness: a seek-only burst arrived while both maps held entries.
C18_Witness ==
    /\ SeekOnlyBurst
    /\ Len(last.zones) > 0
    /\ Len(last.outputs) > 0

\* C19: in every zone_list written, no output id that a zone of the zone map
\* lists among its outputs is the id of an output:<output_id> entry.
C19_NoSyntheticForZoneOutput ==
    \A n \in 1..Len(ZoneListsWritten) :
        \A id \in ReferencedOutputIds(ZoneListsWritten[n].zoneMap) :
            \A i \in 1..Len(ZoneListsWritten[n].zones) :
                ZoneListsWritten[n].zones[i].zone_id # "output:" \o id

\* C19 witness: a zone list was written while the output map held an output
\* that the second zone of the zone map lists, and not the first.
C19_Witness ==
    \E n \in 1..Len(ZoneListsWritten) :
        /\ Len(ZoneListsWritten[n].zoneMap) = 2
        /\ "o2" \in ReferencedOutputIds(<< ZoneListsWritten[n].zoneMap[2] >>)
        /\ "o2" \notin ReferencedOutputIds(<< ZoneListsWritten[n].zoneMap[1] >>)
        /\ \E i \in 1..Len(ZoneListsWritten[n].outputMap) :
              ZoneListsWritten[n].outputMap[i].output_id = "o2"

\* The outputs of the output map that no zone of the zone map lists.
Unreferenced(zoneMap, outputMap) ==
    SelectSeq(outputMap, LAMBDA o : o.output_id \notin ReferencedOutputIds(zoneMap))

\* C20: in every zone_list written, the entry for an output that no zone lists
\* has the id output:<output_id>, the output's display_name followed by
\* " (Inactive)", state stopped and no now_playing, whatever the output's own
\* state; these entries follow the zones' entries in the output map's order.
C20_SyntheticEntryShape ==
    \A n \in 1..Len(ZoneListsWritten) :
        LET m     == ZoneListsWritten[n]
            extra == Unreferenced(m.zoneMap, m.outputMap)
        IN /\ Len(m.zones) = Len(m.zoneMap) + Len(extra)
           /\ \A i \in 1..Len(extra) :
                 m.zones[Len(m.zoneMap) + i] =
                    [zone_id      |-> "output:" \o extra[i].output_id,
                     display_name |-> extra[i].display_name \o " (Inactive)",
                     state        |-> "stopped",
                     now_playing  |-> None]

\* C20 witness: a zone list was written with the entry of an output that no
\* zone lists and whose own state is playing.
C20_Witness ==
    /\ Len(ZoneListsWritten) > 0
    /\ Len(allOutputs) > 0
    /\ allOutputs[1] = O1Playing
    /\ "o1" \notin ReferencedOutputIds(allZones)
    /\ \E i \in 1..Len(ZoneListsWritten[Len(ZoneListsWritten)].zones) :
          ZoneListsWritten[Len(ZoneListsWritten)].zones[i].zone_id = "output:o1"

\* C21: in every zone_list written, an entry carries a now_playing only if
\* the entry's state is playing or paused.
C21_NowPlayingOnlyWhenPlaying ==
    \A n \in 1..Len(ZoneListsWritten) :
        \A i \in 1..Len(ZoneListsWritten[n].zones) :
            IsSome(ZoneListsWritten[n].zones[i].now_playing) =>
                ZoneListsWritten[n].zones[i].state \in {"playing", "paused"}

\* C21 witness: a zone list was written while the zone map held a zone that
\* has a now_playing and is loading, next to a zone that plays; the entry of
\* the first carries no now_playing, the entry of the second does.
C21_Witness ==
    \E n \in 1..Len(ZoneListsWritten) :
        /\ Len(ZoneListsWritten[n].zoneMap) = 2
        /\ ZoneListsWritten[n].zoneMap[1] = Z1Playing
        /\ ZoneListsWritten[n].zoneMap[2] = Z2Loading
        /\ IsSome(ZoneListsWritten[n].zones[1].now_playing)
        /\ ZoneListsWritten[n].zones[2].state = "loading"
        /\ ~IsSome(ZoneListsWritten[n].zones[2].now_playing)

(***************************************************************************)
(* Claims about the subscriptions' notifications.                          *)
(***************************************************************************)
\* C22: no zone or output notification ends with an exception that reaches
\* the subscription collaborator, a burst delivered without payload included.
C22_NoExceptionReachesCollaborator == ~turn.thrown

\* The last notification was a NetworkError or a ConnectionError.
TransportErrorNotice ==
    /\ last.op \in {"zonesNotice", "outputsNotice"}
    /\ last.response \in TransportErrors

DisconnectedWritten ==
    SelectSeq(stdout, LAMBDA m : m.type = "status" /\ m.state = "disconnected")

\* C23: every NetworkError or ConnectionError notification, on the zone
\* subscription or on the output subscription, writes one status message with
\* state disconnected.
C23_TransportErrorWritesDisconnected ==
    TransportErrorNotice => Len(DisconnectedWritten) = 1

\* C24: a NetworkError or ConnectionError notification on either subscription
\* leaves the zone map, the output map and the artwork cache as they were and
\* writes no zone_list and no now_playing.
C24_TransportErrorChangesNothing ==
    TransportErrorNotice =>
        /\ allZones = last.zones
        /\ allOutputs = last.outputs
        /\ cache = last.cache
        /\ \A i \in 1..Len(stdout) : stdout[i].type \notin {"zone_list", "now_playing"}

\* C24 witness: a ConnectionError arrived on the zone subscription while both
\* maps and the cache held entries, and the disconnected status was written.
C24_Witness ==
    /\ TransportErrorNotice
    /\ last.op = "zonesNotice"
    /\ last.response = "ConnectionError"
    /\ Len(last.zones) > 0
    /\ Len(last.outputs) > 0
    /\ Len(last.cache) > 0
    /\ Len(DisconnectedWritten) = 1

\* C24, second witness state: a NetworkError arrived on the output
\* subscription while both maps and the cache held entries.
C24_WitnessOutputs ==
    /\ TransportErrorNotice
    /\ last.op = "outputsNotice"
    /\ last.response = "NetworkError"
    /\ Len(last.zones) > 0
    /\ Len(last.outputs) > 0
    /\ Len(last.cache) > 0

(***************************************************************************)
(* Claims about pairing loss.                                              *)
(***************************************************************************)
\* C25: right after a pairing loss was handled, the zone map, the output map
\* and the artwork cache are empty, whatever they held before.
C25_PairingLossClearsAll ==
    turn.kind = "unpaired" =>
        /\ allZones = << >>
        /\ allOutputs = << >>
        /\ cache = << >>
        /\ LRUSize(cache) = 0

\* C25 witness: a pairing loss was handled that found entries in the maps and
\* in the cache.
C25_Witness ==
    /\ turn.kind = "unpaired"
    /\ turn.mutated
    /\ turn.cached
    /\ allZones = << >>
    /\ cache = << >>

\* C26: on pairing loss a status message with state disconnected is written,
\* and a now_playing message whose title, artist and album are empty strings
\* and whose state is stopped.
C26_PairingLossMessages ==
    turn.kind = "unpaired" =>
        /\ \E i \in 1..Len(stdout) :
              stdout[i].type = "status" /\ stdout[i].state = "disconnected"
        /\ \E i \in 1..Len(stdout) :
              /\ stdout[i].type = "now_playing"
              /\ stdout[i].title = ""
              /\ stdout[i].artist = ""
              /\ stdout[i].album = ""
              /\ stdout[i].state = "stopped"

(***************************************************************************)
(* Claims about the output module.                                         *)
(***************************************************************************)
\* The error-variant lines that carry a diagnostic.
ErrorLines ==
    {Stringify(ErrorMessage(DiagnosticOf(v))) \o "\n" : v \in Unserializable}

\* C27: when the serialization of a message fails inside emit, exactly one
\* error-variant message carrying a diagnostic is written to stdout, the
\* channel of all other protocol messages.
C27_FailureWritesErrorToStdout ==
    last.failed =>
        /\ Len(stdout) = Len(last.before) + 1
        /\ SubSeq(stdout, 1, Len(last.before)) = last.before
        /\ stdout[Len(stdout)] \in ErrorLines

\* The line the i-th call owes to stdout: the message's, or the error
\* variant's when the message cannot be serialized.
OwedLine(data) ==
    IF Len(Unserializables(data)) = 0 THEN Stringify(data) \o "\n"
    ELSE Stringify(ErrorMessage(DiagnosticOf(Unserializables(data)[1]))) \o "\n"

\* C28: the lines written to stdout are the emit calls' messages: one line
\* per call, in call order, none dropped, duplicated, batched or reordered.
C28_OneLinePerCallInOrder ==
    /\ Len(stdout) = Len(last.calls)
    /\ \A i \in 1..Len(stdout) : stdout[i] = OwedLine(last.calls[i])

\* C28 for the calls whose message can be serialized: stdout holds exactly
\* their lines, one per call and in call order.
SerializableCallsInOrder ==
    stdout = [i \in 1..Len(SelectSeq(last.calls, LAMBDA d : Len(Unserializables(d)) = 0)) |->
                Stringify(SelectSeq(last.calls,
                                    LAMBDA d : Len(Unserializables(d)) = 0)[i]) \o "\n"]

(***************************************************************************)
(* Further claims about the cache.                                         *)
(***************************************************************************)
\* The last call was a set of a key that was resident.
ResidentSet == last.op = "set" /\ last.had

\* C29: a set of a key that is resident evicts no other entry, leaves the
\* size as it was, makes the key the most recently used entry and gives it
\* the time of the set as timestamp and the new value.
C29_SetOfResidentKeyRefreshes ==
    ResidentSet =>
        /\ last.removed = {}
        /\ LRUSize(cache) = last.size
        /\ cache[Len(cache)] =
              [key |-> last.key, value |-> last.result, timestamp |-> last.time]
        /\ \A i \in 1..(Len(cache) - 1) : cache[i].key # last.key

\* C29 witness: with the cache at capacity, a key that was resident and not
\* the most recently used one was set again, later than its last set and
\* with another value.
C29_Witness ==
    /\ ResidentSet
    /\ last.size = MAX_CACHE_SIZE
    /\ last.mru # last.key
    /\ last.time > last.setAt
    /\ last.stored # last.result
    /\ cache[Len(cache)].key = last.key

\* The last call was a get or a has of a resident key older than the TTL.
ExpiredLookup ==
    /\ last.op \in {"get", "has"}
    /\ last.had
    /\ last.time - last.setAt > CACHE_TTL_MS

\* C30: a get or has of a key whose entry is older than the TTL removes that
\* entry (the size goes down by one); a get or has removes no other entry,
\* so expired entries that are not looked up stay resident.
C30_LookupRemovesExpiredEntryOnly ==
    /\ ExpiredLookup =>
          /\ last.removed = {last.key}
          /\ LRUSize(cache) = last.size - 1
    /\ last.op \in {"get", "has"} =>
          /\ last.removed \subseteq {last.key}
          /\ LRUSize(cache) >= last.size - 1
          /\ last.removed # {} => ExpiredLookup

\* C30 witness: has found its key expired and removed it, while other
\* entries, expired as well, are still resident.
C30_Witness ==
    /\ ExpiredLookup
    /\ last.op = "has"
    /\ last.removed = {last.key}
    /\ LRUSize(cache) = MAX_CACHE_SIZE - 1
    /\ \E i \in 1..Len(cache) : Expired(cache[i], now)

\* C30, second witness state: the same for get.
C30_WitnessGet ==
    /\ ExpiredLookup
    /\ last.op = "get"
    /\ last.removed = {last.key}
    /\ \E i \in 1..Len(cache) : Expired(cache[i], now)

(***************************************************************************)
(* Claims about the order of a burst's messages.                           *)
(***************************************************************************)
\* C31: the zone_list a zone burst writes comes before every now_playing the
\* same burst writes: in the turn of the burst no now_playing precedes a
\* zone_list, and the turns in which the burst resumes write no zone_list.
C31_ZoneListBeforeNowPlaying ==
    /\ turn.kind = "zones" =>
          \A i, j \in 1..Len(stdout) :
              stdout[i].type = "zone_list" /\ stdout[j].type = "now_playing" => i < j
    /\ turn.kind = "resume" =>
          \A i \in 1..Len(stdout) : stdout[i].type # "zone_list"

\* C31 witness: the call for a zone burst wrote a zone_list and, for a zone
\* that needs no artwork, a now_playing before it returned.
C31_Witness ==
    /\ turn.kind = "zones"
    /\ Len(ZoneListsWritten) > 0
    /\ Len(NowPlayingOnly(stdout)) > 0

\* C31, second witness state: a continuation of a zone burst's call wrote a
\* now_playing with artwork.
C31_WitnessResume ==
    /\ turn.kind = "resume"
    /\ Len(stdout) = 1
    /\ stdout[1].type = "now_playing"
    /\ stdout[1].artwork # undefined

(***************************************************************************)
(* Claims about fetches in flight together.                                *)
(***************************************************************************)
\* Another fetch for the key of the last call is in flight.
OtherFetchInFlight ==
    \E i \in 1..Len(fetches) :
        /\ fetches[i].key = last.key
        /\ fetches[i].id # last.fetch.id
        /\ fetches[i].promise = "pending"

\* C32: a fetch started while another fetch for the same key is in flight
\* sends its own request and arms its own deadline timer; every fetch is
\* pending exactly as long as its own timer is armed, so the timeout of one
\* fetch settles no other.
C32_SameKeyFetchesNotCoalesced ==
    /\ FetchMissed /\ imageService /\ OtherFetchInFlight =>
          /\ OneRequestSent
          /\ last.fetch.promise = "pending"
          /\ last.fetch.timer = "armed"
    /\ \A i, j \in 1..Len(fetches) : i # j => fetches[i].id # fetches[j].id
    /\ \A i \in 1..Len(fetches) :
          fetches[i].promise = "pending" <=> fetches[i].timer = "armed"
    /\ last.op = "timeout" =>
          /\ last.fetch.timer = "fired"
          /\ \A i \in 1..Len(fetches) :
                fetches[i].timer = "fired" /\ fetches[i].id # last.fetch.id =>
                    fetches[i].promise = "rejected"

\* C32 witness: two fetches for one key were started before either settled;
\* the deadline of one has passed and the other is still in flight.
C32_Witness ==
    /\ last.op = "timeout"
    /\ last.fetch.promise = "rejected"
    /\ OtherFetchInFlight
    /\ requests = 2

(***************************************************************************)
(* Claims about the pure functions.                                        *)
(***************************************************************************)
\* C33: state normalization maps playing to playing, paused to paused,
\* loading to loading and every other input to stopped, a state that is
\* stopped, unknown or missing included.
C33_StateNormalization ==
    last.op = "normalize" =>
        /\ Len(last.result) = 2
        /\ \A i \in 1..2 :
              last.result[i] = (IF last.state = "playing" THEN "playing"
                                ELSE IF last.state = "paused" THEN "paused"
                                ELSE IF last.state = "loading" THEN "loading"
                                ELSE "stopped")

\* C33 witness: the function was applied to loading and gave loading.
C33_Witness ==
    /\ last.op = "normalize"
    /\ last.state = "loading"
    /\ last.result = << "loading", "loading" >>

\* C33, second witness state: a missing state gave stopped.
C33_WitnessMissing ==
    /\ last.op = "normalize"
    /\ last.state = undefined
    /\ last.result = << "stopped", "stopped" >>

\* A line, or the empty string when the line is missing or empty.
LineOf(line) == IF line \in {undefined, null} THEN "" ELSE line

\* C34: metadata extraction takes title, artist and album from the
\* three-line form if it is present, otherwise title and artist from the
\* two-line form, otherwise the title from the one-line form, otherwise
\* three empty strings; no field comes from another form than the chosen one.
C34_FirstFormWins ==
    last.op = "extract" =>
        last.result[1] =
            (IF last.nowPlaying.three_line # None
             THEN [title  |-> LineOf(last.nowPlaying.three_line[1].line1),
                   artist |-> LineOf(last.nowPlaying.three_line[1].line2),
                   album  |-> LineOf(last.nowPlaying.three_line[1].line3)]
             ELSE IF last.nowPlaying.two_line # None
             THEN [title  |-> LineOf(last.nowPlaying.two_line[1].line1),
                   artist |-> LineOf(last.nowPlaying.two_line[1].line2),
                   album  |-> ""]
             ELSE IF last.nowPlaying.one_line # None
             THEN [title  |-> LineOf(last.nowPlaying.one_line[1].line1),
                   artist |-> "", album |-> ""]
             ELSE [title |-> "", artist |-> "", album |-> ""])

\* C34 witness: a three-line form with empty lines came with a two-line and
\* a one-line form that have a title; the result is three empty strings.
C34_Witness ==
    /\ last.op = "extract"
    /\ last.nowPlaying.three_line = Some(Lines("", undefined, ""))
    /\ last.nowPlaying.two_line = Some([line1 |-> "Song2", line2 |-> "Artist2"])
    /\ last.nowPlaying.one_line = Some([line1 |-> "Song1"])
    /\ last.result[1] = [title |-> "", artist |-> "", album |-> ""]

\* C34, second witness state: no three-line form, a two-line form whose
\* artist is missing and a one-line form; the album and the artist are empty.
C34_WitnessTwoLine ==
    /\ last.op = "extract"
    /\ last.nowPlaying.three_line = None
    /\ last.nowPlaying.two_line = Some([line1 |-> "Song2", line2 |-> undefined])
    /\ last.result[1] = [title |-> "Song2", artist |-> "", album |-> ""]

(***************************************************************************)
(* Claims about upserts.                                                   *)
(***************************************************************************)
\* The zone records the last zone burst carried for upsert.
UpsertedRecords == FirstList(last.data.zones, last.data.zones_changed)

\* C35: after a zone burst that upserts zone z, the zone map's record for z
\* is the record the burst carried, and the map holds one record for z: no
\* field of the record z had before survives.
C35_UpsertReplacesRecord ==
    last.op = "zonesBurst" =>
        \A i \in 1..Len(UpsertedRecords) :
            /\ ZoneIndex(allZones, UpsertedRecords[i].zone_id) # 0
            /\ allZones[ZoneIndex(allZones, UpsertedRecords[i].zone_id)] = UpsertedRecords[i]
            /\ Cardinality({j \in 1..Len(allZones) :
                               allZones[j].zone_id = UpsertedRecords[i].zone_id}) = 1

\* C35 witness: z1's record had a now_playing, the burst carried a record of
\* z1 without one, and the zone map's record of z1 has none.
C35_Witness ==
    /\ last.op = "zonesBurst"
    /\ UpsertedRecords = << Z1Stopped >>
    /\ ZoneIndex(last.zones, "z1") # 0
    /\ last.zones[ZoneIndex(last.zones, "z1")] = Z1Playing
    /\ allZones[ZoneIndex(allZones, "z1")].now_playing = None

(***************************************************************************)
(* Claims about bursts and sessions that overlap.                          *)
(***************************************************************************)
\* The now_playing message that the record of a zone calls for, artwork
\* left aside.
MessageFor(zone) ==
    IF StateOrStopped(zone) = "stopped" \/ ~IsSome(zone.now_playing)
    THEN StoppedMessage(zone)
    ELSE PlayingMessage(zone, undefined)

\* C36: every now_playing written for a zone of the zone map reflects the
\* record the zone map holds for that zone, the most recently applied one:
\* no now_playing built from the record of an older burst is written after a
\* newer burst has replaced the record.
C36_NowPlayingReflectsLatestRecord ==
    \A i \in 1..Len(stdout) :
        stdout[i].type = "now_playing" /\ ZoneIndex(allZones, stdout[i].zone_id) # 0 =>
            [stdout[i] EXCEPT !.artwork = undefined]
                = MessageFor(allZones[ZoneIndex(allZones, stdout[i].zone_id)])

\* No session: the pairing was lost, or the core has not paired yet.
SessionLost == ~client.isAuthorized

\* C37: once a pairing loss has been handled, the cache holds no entry for an
\* image key of the lost session, also when the answer to a fetch that was in
\* flight arrives afterwards.
C37_NoEntryOfLostSession == SessionLost => cache = << >>

\* C38: after the messages of a pairing loss, no now_playing with state
\* playing or paused is written until the core pairs again, also when a zone
\* burst of the lost session was waiting for artwork.
C38_NoPlayingAfterPairingLoss ==
    SessionLost =>
        \A i \in 1..Len(stdout) :
            stdout[i].type = "now_playing" => stdout[i].state \notin {"playing", "paused"}

\* C39: a zone burst, in the turn that starts it and in the turns that resume
\* it, leaves the output map as it was; an output burst leaves the zone map
\* as it was, writes at most one zone_list message and no now_playing
\* message, and issues no artwork fetch (no request, no pending fetch, no
\* waiting call and no cache access is added).
OutputBurstFrame ==
    /\ allZones' = allZones
    /\ fetches' = fetches /\ requests' = requests /\ tasks' = tasks /\ cache' = cache
    /\ microtasks' = microtasks
    /\ Len(SelectSeq(stdout', LAMBDA m : m.type = "zone_list")) <= 1
    /\ NowPlayingOnly(stdout') = << >>

C39_BurstsKeepToTheirMap ==
    [][/\ turn'.kind = "outputs" => OutputBurstFrame
       /\ turn'.kind \in {"zones", "resume"} => allOutputs' = allOutputs]_vars

\* C39 witness: an output burst has just changed the output map and written
\* its one zone list while a playing zone is in the zone map and a zone
\* burst is waiting for that zone's artwork.
C39_Witness ==
    /\ turn.kind = "outputs" /\ turn.mutated
    /\ Len(ZoneListsWritten) = 1
    /\ tasks # << >>
    /\ \E i \in 1..Len(allZones) : allZones[i].state = "playing"

\* C39 witness for the zone side: a zone burst has just changed the zone map
\* while the output map is not empty.
C39_WitnessZones ==
    /\ turn.kind = "zones" /\ turn.mutated
    /\ allOutputs # << >>


================================================================
